---- MODULE Spec2Model ----
(***************************************************************************)
(* Admission control and caching layer of J_Stock_StreamlitV2.             *)
(*                                                                         *)
(*   core/api_rate_manager.py   AdaptiveAPIManager  (Spec)                 *)
(*   core/multi_data_source.py  MultiDataSourceManager (SpecFetch,         *)
(*                              SpecCache)                                 *)
(*                                                                         *)
(* Time is counted in whole seconds; datetime.now() is the variable now.   *)
(* A handler runs at one instant: the clock moves only in Tick.            *)
(***************************************************************************)
EXTENDS Integers, Sequences, FiniteSets, TLC

(* ------------------------------ bounds -------------------------------- *)
\* the number of calls and clock moves in a run
MaxSteps == 5
\* the same, in a run of cache operations
MaxCacheSteps == 3
\* the same, in a run that starts with the hourly quota used up
MaxQuotaSteps == 2
\* the number of calls, clock moves and failing upstream answers in a run of fetches
MaxFetchSteps == 3
\* the number of get_multiple_stocks calls in a run whose upstream may fail forever
MaxBatches == 1
\* the number of calls and clock moves in a run that also names an unconfigured api
MaxUnknownSteps == 3
\* the number of calls and restarts in a run over the settings store
MaxStoreSteps == 3
\* the number of steps of transaction blocks in a run
MaxTxnSteps == 6
\* the number of steps of two contexts calling request_api_slot, and clock moves
MaxRaceSteps == 5
\* the number of get_next_request calls and clock moves in a run over filled queues
MaxDrainSteps == 4
\* the number of calls and clock moves in a run that starts after some 429 reports
MaxBackoffSteps == 3
\* the number of calls and clock moves in a run under fixed limits
MaxLimitSteps == 5
MaxWaitHours == 2
MaxTwinSteps == 3
MaxBypassSteps == 3

(* ------------------------- program constants -------------------------- *)
LOW == 1
NORMAL == 2
HIGH == 3
CRITICAL == 4
Priority == {LOW, NORMAL, HIGH, CRITICAL}

HOUR == 3600
MINUTE == 60
DefaultRequestsPerHour == 100
DefaultRequestsPerMinute == 10
base_delay == 1
max_delay == 300
cache_ttl == 900
CacheCapacity == 100
MdsRequestsPerHour == 100
MdsRequestsPerMinute == 5
RateLimitCooldown == 60
RetryPause == 5
RetentionHorizon == 7200
ServerErrorBackoff == 30
ForbiddenBackoff == 1800

\* Python's None (an absent limit, an attribute never set)
None == -1

Apis == {"yahoo_finance"}
\* an api_name that __init__ does not configure
UnknownApis == {"unknown_api"}
Symbols == {"7203"}
TickSteps == {1, 60, 3600}
StatusCodes == {200, 403, 429, 500}
\* values the settings store / update_api_config may carry
HourLimitChoices == {2}
MinuteLimitChoices == {None, 1}
Absent == -2

VARIABLES
    now,              \* datetime.now()
    steps,            \* calls made and clock moves so far
    api_configs,      \* api -> APILimitConfig
    request_history,  \* api -> deque of admission timestamps
    request_queues,   \* api -> priority -> deque of APIRequest
    backoff_until,    \* api -> datetime
    api_delay,        \* api -> the attribute _<api>_delay, None while unset
    recorded,         \* api -> every timestamp ever passed to _record_request
    lock_log,         \* api -> lock durations set by 429 reports, in order
    db,               \* the database: whether it has a 'settings' table, the
                      \* 'api_limits' setting per api, the committed rows of a
                      \* table, and the connection of the transaction in progress
    callers,          \* the execution contexts inside request_api_slot: what each
                      \* holds between its check and its record, and whether
                      \* they take a per-api mutex around the call
    issued,           \* api -> the priorities requests were made with, where a
                      \* run keeps track of them
    ret,              \* the last call and the request it returned
    mds_history,      \* MultiDataSourceManager.request_history
    cache,            \* MultiDataSourceManager.cache, in insertion order
    frames,           \* the get_multiple_stocks calls in progress, innermost last
    batch,            \* the outermost get_multiple_stocks call: what was asked, tried
    returned,         \* what the last get_multiple_stocks call returned
    got               \* the last cache or get_stock_info call and its outcome

apiVars == <<api_configs, request_history, request_queues, backoff_until,
             api_delay, recorded, lock_log, db, callers, issued>>
mdsVars == <<mds_history, cache, frames, batch, returned, got>>
vars == <<now, steps, apiVars, ret, mdsVars>>

(* ------------------------------ helpers -------------------------------- *)
Min(a, b) == IF a <= b THEN a ELSE b

NoRequest == [symbol |-> "", priority |-> 0, timestamp |-> None]

APIRequest(symbol, priority, t) ==
    [symbol |-> symbol, priority |-> priority, timestamp |-> t]

\* L * 1.1 in IEEE doubles lies above the exact product for these L (L <= 600),
\* so a count equal to the exact product still compares as smaller
FloatAbove11 == {50, 90, 100, 110, 170, 180, 190, 200, 210, 220, 230,
                 330, 340, 350, 360, 370, 380, 390, 400, 410, 420, 430,
                 440, 450, 460}

\* a CRITICAL limit below the plain one
BelowCriticalLimitLowered(count, L) == 10 * count < 8 * L

\* hour_count < requests_per_hour * 1.2   (exact in doubles for L <= 600)
BelowCriticalLimit(count, L) == 10 * count < 12 * L

\* hour_count < requests_per_hour * 1.1
BelowHighLimit(count, L) ==
    \/ 10 * count < 11 * L
    \/ 10 * count = 11 * L /\ L \in FloatAbove11

\* int(requests_per_hour * 0.8)
ShrinkLimit(L) == (8 * L) \div 10

(* ---------------------- _count_requests_in_window ---------------------- *)
\* reversed(history) is scanned and the scan breaks at the first timestamp
\* below the cutoff: the count is the length of the run that ends the list
ScanBack(history, cutoff) ==
    LET below == {i \in DOMAIN history : history[i] < cutoff}
    IN  IF below = {} THEN Len(history)
        ELSE Len(history) - (CHOOSE i \in below : \A j \in below : j <= i)

CountRequestsInWindow(history, window_seconds) ==
    ScanBack(history, now - window_seconds)

(* --------------------------- _cleanup_history -------------------------- *)
\* a cleanup that also drops the entry lying exactly on the cutoff
\* the list without the first k entries
DropFirst(history, k) == SubSeq(history, k + 1, Len(history))

CleanupHistoryInclusive(history) ==
    LET kept == {i \in DOMAIN history : ~(history[i] <= now - HOUR)}
    IN  IF kept = {} THEN <<>>
        ELSE DropFirst(history, (CHOOSE i \in kept : \A j \in kept : i <= j) - 1)

\* while history and history[0] < cutoff: history.popleft()
CleanupHistory(history) ==
    LET kept == {i \in DOMAIN history : ~(history[i] < now - HOUR)}
    IN  IF kept = {} THEN <<>>
        ELSE DropFirst(history, (CHOOSE i \in kept : \A j \in kept : i <= j) - 1)

(* --------------------------- can_make_request -------------------------- *)
Result(allowed, num, den, raised) ==
    [allowed |-> allowed, num |-> num, den |-> den, raised |-> raised]

\* an hourly limit that no priority relaxes
HourLimitOkUnscaled(hour_count, config, priority) ==
    hour_count < config.requests_per_hour

HourLimitOk(hour_count, config, priority) ==
    IF priority = CRITICAL THEN BelowCriticalLimit(hour_count, config.requests_per_hour)
    ELSE IF priority = HIGH THEN BelowHighLimit(hour_count, config.requests_per_hour)
    ELSE hour_count < config.requests_per_hour

\* a minute check that still admits at the limit
MinuteLimitOkAtLimit(minute_count, config) ==
    \/ config.requests_per_minute = None
    \/ minute_count <= config.requests_per_minute

MinuteLimitOk(minute_count, config) ==
    \/ config.requests_per_minute = None
    \/ minute_count < config.requests_per_minute

Locked(api) == now < backoff_until[api]

\* the quota part of can_make_request, on the history left by _cleanup_history;
\* the wait is the fraction num/den, raised is the ZeroDivisionError of
\* 3600.0 / requests_per_hour
QuotaCheck(config, history, priority) ==
    LET hour_count   == CountRequestsInWindow(history, HOUR)
        minute_count == CountRequestsInWindow(history, MINUTE)
        hour_ok      == HourLimitOk(hour_count, config, priority)
        minute_ok    == MinuteLimitOk(minute_count, config)
        byMinute     == ~minute_ok /\ config.requests_per_minute \notin {None, 0}
        num          == IF byMinute THEN MINUTE ELSE HOUR
        den          == IF byMinute THEN config.requests_per_minute
                        ELSE config.requests_per_hour
    IN  IF hour_ok /\ minute_ok THEN Result(TRUE, 0, 1, FALSE)
        ELSE IF den = 0 THEN Result(FALSE, 0, 0, TRUE)
        ELSE IF priority = HIGH THEN Result(FALSE, num, 2 * den, FALSE)
        ELSE IF priority = LOW THEN Result(FALSE, 2 * num, den, FALSE)
        ELSE Result(FALSE, num, den, FALSE)

\* a check that lets CRITICAL requests through a lock
CanMakeRequestCriticalUnlocked(api, priority) ==
    IF api \notin DOMAIN api_configs THEN Result(TRUE, 0, 1, FALSE)
    ELSE IF Locked(api) /\ priority # CRITICAL
         THEN Result(FALSE, backoff_until[api] - now, 1, FALSE)
    ELSE QuotaCheck(api_configs[api], CleanupHistory(request_history[api]), priority)

CanMakeRequest(api, priority) ==
    IF api \notin DOMAIN api_configs THEN Result(TRUE, 0, 1, FALSE)
    ELSE IF Locked(api) THEN Result(FALSE, backoff_until[api] - now, 1, FALSE)
    ELSE QuotaCheck(api_configs[api], CleanupHistory(request_history[api]), priority)

\* request_history after a can_make_request call: pruned unless it returned early
HistoryAfterCheck(api) ==
    IF Locked(api) THEN request_history[api]
    ELSE CleanupHistory(request_history[api])

(* ---------------------------- _record_request -------------------------- *)
\* a record that appends the timestamp twice
RecordRequestTwice(history) == Append(Append(history, now), now)

RecordRequest(history) == Append(history, now)

(* ------------------------------ the calls ------------------------------ *)
\* a call that returned, and a call that raised error
Ret(op, request) ==
    [op |-> op, request |-> request, error |-> "", status |-> 0, sink |-> "",
     value |-> ""]

Raise(op, error) ==
    [op |-> op, request |-> NoRequest, error |-> error, status |-> 0, sink |-> "",
     value |-> ""]

\* a call that returned the bool value ("True" or "False")
Returned(op, value) == [Ret(op, NoRequest) EXCEPT !.value = value]

\* can_make_request called on its own: its only effect is _cleanup_history
CanMakeRequestCall(api, priority) ==
    /\ request_history' =
          IF api \in DOMAIN api_configs
          THEN [request_history EXCEPT ![api] = HistoryAfterCheck(api)]
          ELSE request_history
    /\ ret' = IF CanMakeRequest(api, priority).raised
              THEN Raise("can_make_request", "ZeroDivisionError")
              ELSE Ret("can_make_request", NoRequest)
    /\ UNCHANGED <<now, callers, api_configs, request_queues, backoff_until,
                   api_delay, recorded, lock_log, db>>

(* --------------------------- request_api_slot -------------------------- *)
\* for an api without configuration can_make_request allows, and
\* _record_request raises KeyError on self.request_history[api_name]
RequestApiSlot(api, symbol, priority) ==
    IF api \notin DOMAIN api_configs
    THEN /\ ret' = IF api \in DOMAIN request_history
                   THEN Returned("request_api_slot", "True")
                   ELSE Raise("request_api_slot", "KeyError")
         /\ UNCHANGED <<now, apiVars>>
    ELSE
    LET r == CanMakeRequest(api, priority)
        h == HistoryAfterCheck(api)
    IN  /\ request_history' = [request_history EXCEPT
                                 ![api] = IF r.allowed THEN RecordRequest(h) ELSE h]
        /\ recorded' = [recorded EXCEPT
                          ![api] = IF r.allowed THEN RecordRequest(@) ELSE @]
        /\ request_queues' = [request_queues EXCEPT
                                ![api][priority] =
                                    IF r.allowed \/ r.raised THEN @
                                    ELSE Append(@, APIRequest(symbol, priority, now))]
        /\ ret' = IF r.raised THEN Raise("request_api_slot", "ZeroDivisionError")
                  ELSE Returned("request_api_slot",
                                IF r.allowed THEN "True" ELSE "False")
        /\ UNCHANGED <<now, callers, api_configs, backoff_until, api_delay, lock_log, db>>

(* --------------------------- get_next_request -------------------------- *)
\* the tiers scanned from the lowest priority up
TierOrderAscending == <<LOW, NORMAL, HIGH, CRITICAL>>

TierOrder == <<CRITICAL, HIGH, NORMAL, LOW>>

\* a skip that also takes the record queued exactly one hour ago
ExpiredAtOneHour(request) == now - request.timestamp >= HOUR

\* age > timedelta(hours=1)
Expired(request) == now - request.timestamp > HOUR

\* the while loop's "continue": expired heads are popped and dropped
RECURSIVE DropExpired(_)
DropExpired(queue) ==
    IF queue # <<>> /\ Expired(Head(queue)) THEN DropExpired(Tail(queue)) ELSE queue

Drained(queues, request, checked, admitted, raised) ==
    [queues |-> queues, request |-> request, checked |-> checked,
     admitted |-> admitted, raised |-> raised]

\* a push-back that puts the request behind the others of its tier
PushBackToTail(queue, request) == Append(queue, request)

\* queue.appendleft(request)
PushBack(queue, request) == <<request>> \o queue

\* the for loop over the tiers, from tier k of TierOrder on
RECURSIVE DrainFrom(_, _, _)
DrainFrom(api, k, queues) ==
    IF k > Len(TierOrder) THEN Drained(queues, NoRequest, FALSE, FALSE, FALSE)
    ELSE LET p    == TierOrder[k]
             live == DropExpired(queues[p])
             q1   == [queues EXCEPT ![p] = live]
         IN  IF live = <<>> THEN DrainFrom(api, k + 1, q1)
             ELSE LET request == Head(live)
                      r       == CanMakeRequest(api, request.priority)
                      popped  == [q1 EXCEPT ![p] = Tail(live)]
                  IN  IF r.raised THEN Drained(popped, NoRequest, TRUE, FALSE, TRUE)
                      ELSE IF r.allowed THEN Drained(popped, request, TRUE, TRUE, FALSE)
                      ELSE Drained([popped EXCEPT ![p] = PushBack(@, request)],
                                   NoRequest, TRUE, FALSE, FALSE)

GetNextRequest(api) ==
    IF api \notin DOMAIN request_queues
    THEN /\ ret' = Ret("get_next_request", NoRequest)
         /\ UNCHANGED <<now, apiVars>>
    ELSE
    LET d == DrainFrom(api, 1, request_queues[api])
        h == IF d.checked THEN HistoryAfterCheck(api) ELSE request_history[api]
    IN  /\ request_queues' = [request_queues EXCEPT ![api] = d.queues]
        /\ request_history' = [request_history EXCEPT
                                 ![api] = IF d.admitted THEN RecordRequest(h) ELSE h]
        /\ recorded' = [recorded EXCEPT
                          ![api] = IF d.admitted THEN RecordRequest(@) ELSE @]
        /\ ret' = IF d.raised THEN Raise("get_next_request", "ZeroDivisionError")
                  ELSE Ret("get_next_request", d.request)
        /\ UNCHANGED <<now, callers, api_configs, backoff_until, api_delay, lock_log, db>>

(* -------------------------- record_api_response ------------------------ *)
\* _handle_rate_limit_exceeded: the delay the lock is set to
\* a doubling without the ceiling
NewDelayUncapped(api) ==
    (IF api_delay[api] = None THEN base_delay ELSE api_delay[api]) * 2

NewDelay(api) ==
    LET current_delay == IF api_delay[api] = None THEN base_delay ELSE api_delay[api]
    IN  Min(current_delay * 2, max_delay)

HandleRateLimitExceeded(api) ==
    LET config == api_configs[api]
    IN  /\ IF config.backoff_enabled
           THEN /\ api_delay' = [api_delay EXCEPT ![api] = NewDelay(api)]
                /\ backoff_until' = [backoff_until EXCEPT ![api] = now + NewDelay(api)]
                /\ lock_log' = [lock_log EXCEPT ![api] = Append(@, NewDelay(api))]
           ELSE UNCHANGED <<api_delay, backoff_until, lock_log>>
        /\ api_configs' = [api_configs EXCEPT
                             ![api].requests_per_hour = ShrinkLimit(@)]

\* self.backoff_until[api_name] = ...: a dict assignment, which adds the key
\* when it is missing
SetBackoff(api, until) ==
    [a \in DOMAIN backoff_until \cup {api} |->
        IF a = api THEN until ELSE backoff_until[a]]

\* a server-error handler that also shrinks the hourly limit
HandleServerErrorShrinking(api) ==
    /\ backoff_until' = SetBackoff(api, now + ServerErrorBackoff)
    /\ api_configs' = [api_configs EXCEPT
                         ![api].requests_per_hour = ShrinkLimit(@)]
    /\ UNCHANGED <<api_delay, lock_log>>

HandleServerError(api) ==
    /\ backoff_until' = SetBackoff(api, now + ServerErrorBackoff)
    /\ UNCHANGED <<api_configs, api_delay, lock_log>>

HandleForbiddenError(api) ==
    /\ backoff_until' = SetBackoff(api, now + ForbiddenBackoff)
    /\ UNCHANGED <<api_configs, api_delay, lock_log>>

\* the outcomes of the INSERT into api_usage_log
SinkOutcomes == {"ok", "error"}

Logged(logged, raised) == [logged |-> logged, raised |-> raised]

\* a log_api_usage without its try/except
LogApiUsageUncaught(sink) == Logged(sink = "ok", sink # "ok")

\* DatabaseManager.log_api_usage: True, or False when the insert failed
LogApiUsage(sink) == Logged(sink = "ok", FALSE)

\* a dispatch that takes only the codes above 500 for server errors
ResponseEffectAbove500(api, response_status) ==
    IF response_status = 429 THEN HandleRateLimitExceeded(api)
    ELSE IF response_status > 500 THEN HandleServerError(api)
    ELSE IF response_status = 403 THEN HandleForbiddenError(api)
    ELSE UNCHANGED <<api_configs, backoff_until, api_delay, lock_log>>

\* the backoff transition that matches the status code
ResponseEffect(api, response_status) ==
    IF response_status = 429 THEN HandleRateLimitExceeded(api)
    ELSE IF response_status >= 500 THEN HandleServerError(api)
    ELSE IF response_status = 403 THEN HandleForbiddenError(api)
    ELSE UNCHANGED <<api_configs, backoff_until, api_delay, lock_log>>

Responded(response_status, sink) ==
    [Ret("record_api_response", NoRequest) EXCEPT
        !.status = response_status, !.sink = sink]

\* for an api without configuration _handle_rate_limit_exceeded raises
\* KeyError on self.api_configs[api_name]
RecordApiResponse(api, response_status, sink) ==
    /\ IF LogApiUsage(sink).raised
       THEN /\ UNCHANGED <<api_configs, backoff_until, api_delay, lock_log>>
            /\ ret' = [Raise("record_api_response", "sqlite3.Error") EXCEPT
                          !.status = response_status, !.sink = sink]
       ELSE IF response_status = 429 /\ api \notin DOMAIN api_configs
       THEN /\ UNCHANGED <<api_configs, backoff_until, api_delay, lock_log>>
            /\ ret' = [Raise("record_api_response", "KeyError") EXCEPT
                          !.status = response_status, !.sink = sink]
       ELSE /\ ResponseEffect(api, response_status)
            /\ ret' = Responded(response_status, sink)
    /\ UNCHANGED <<now, callers, request_history, request_queues, recorded, db>>

(* ---------------------------- update_api_config ------------------------ *)
\* the entry update_api_config stores under 'api_limits' (JSON: the flag is
\* written here as 1 or 0)
StoredSetting(config) ==
    [requests |-> config.requests_per_hour,
     backoff_enabled |-> IF config.backoff_enabled THEN 1 ELSE 0]

NoSetting == [requests |-> Absent, backoff_enabled |-> Absent]

\* DatabaseManager.get_setting('api_limits'): the stored entries, or None
\* (no entry for any api) when the SELECT fails for want of the table
GetSetting ==
    IF db.settings_table THEN db.api_limits ELSE [a \in Apis |-> NoSetting]

\* DatabaseManager.update_setting('api_limits', ...): INSERT OR REPLACE in a
\* transaction; on a database without the table it logs the error and
\* returns False
UpdateSetting(api, setting) ==
    IF db.settings_table THEN [db EXCEPT !.api_limits[api] = setting] ELSE db

UpdateApiConfig(api, per_hour, per_minute, backoff) ==
    /\ api_configs' =
          IF api \notin DOMAIN api_configs THEN api_configs
          ELSE [api_configs EXCEPT
          ![api] = [requests_per_hour |->
                        IF per_hour = Absent THEN @.requests_per_hour ELSE per_hour,
                    requests_per_minute |->
                        IF per_minute = Absent THEN @.requests_per_minute ELSE per_minute,
                    backoff_enabled |->
                        IF backoff = Absent THEN @.backoff_enabled ELSE backoff = 1]]
    /\ db' = IF api \notin DOMAIN api_configs THEN db
             ELSE UpdateSetting(api, StoredSetting(api_configs'[api]))
    /\ ret' = Ret("update_api_config", NoRequest)
    /\ UNCHANGED <<now, callers, request_history, request_queues, backoff_until,
                   api_delay, recorded, lock_log>>

(* ---------------------- DatabaseManager.transaction -------------------- *)
\* the rows a transaction block writes: a key and the value stored under it
TxnKeys == {"TEST", "TEST2"}
TxnValues == {100, 200}

EmptyTable == [k \in TxnKeys |-> Absent]

\* how the body of the with-block ends: it completes, or it raises an
\* Exception, or it raises a BaseException that is not an Exception
BlockOutcomes == {"return", "Exception", "KeyboardInterrupt"}

\* no connection open; block and writes keep how the last block ended and
\* how many statements it had executed
NoConnection == [open |-> FALSE, view |-> EmptyTable, block |-> "", writes |-> 0]

\* what a new connection reads: the committed rows
Visible == db.rows

\* conn.commit(), then the close of get_connection's finally
Commit(d, outcome) ==
    [d EXCEPT !.rows = d.conn.view,
              !.conn = [NoConnection EXCEPT !.block = outcome, !.writes = d.conn.writes]]

\* an except branch that commits what the block had written
RollbackCommitting(d, outcome) == Commit(d, outcome)

\* conn.rollback() (or no commit at all), then the close: the uncommitted
\* writes of the connection are discarded
Rollback(d, outcome) ==
    [d EXCEPT !.conn = [NoConnection EXCEPT !.block = outcome, !.writes = d.conn.writes]]

\* with self.transaction() as conn: sqlite3.connect, the block starts
TransactionEnter ==
    /\ ~db.conn.open
    /\ db' = [db EXCEPT !.conn = [open |-> TRUE, view |-> db.rows,
                                  block |-> "", writes |-> 0]]
    /\ ret' = Ret("transaction.enter", NoRequest)
    /\ UNCHANGED <<now, callers, api_configs, request_history, request_queues,
                   backoff_until, api_delay, recorded, lock_log>>

\* a statement of the block: INSERT OR REPLACE of (key, value), or DELETE of
\* key when value is Absent; the connection's own reads see it at once
TransactionExecute(key, value) ==
    /\ db.conn.open
    /\ db' = [db EXCEPT !.conn.view[key] = value, !.conn.writes = @ + 1]
    /\ ret' = Ret("execute", NoRequest)
    /\ UNCHANGED <<now, callers, api_configs, request_history, request_queues,
                   backoff_until, api_delay, recorded, lock_log>>

\* the block ends: commit when it completed; rollback and re-raise on an
\* Exception; any other exception passes through to the close
TransactionExit(outcome) ==
    /\ db.conn.open
    /\ db' = IF outcome = "return" THEN Commit(db, outcome) ELSE Rollback(db, outcome)
    /\ ret' = IF outcome = "return" THEN Ret("transaction", NoRequest)
              ELSE Raise("transaction", outcome)
    /\ UNCHANGED <<now, callers, api_configs, request_history, request_queues,
                   backoff_until, api_delay, recorded, lock_log>>

(* ------------------------------ get_api_status ------------------------- *)
Max(a, b) == IF a >= b THEN a ELSE b

\* the entry of one api; usage_percentage is the fraction usage_num / usage_den
\* times 100
ApiStatus(api) ==
    LET config     == api_configs[api]
        hour_count == CountRequestsInWindow(request_history[api], HOUR)
    IN  [requests_last_hour |-> hour_count,
         requests_last_minute |-> CountRequestsInWindow(request_history[api], MINUTE),
         hourly_limit |-> config.requests_per_hour,
         minute_limit |-> config.requests_per_minute,
         usage_num |-> hour_count,
         usage_den |-> config.requests_per_hour,
         backoff_remaining |-> Max(0, backoff_until[api] - now),
         queued_requests |-> [p \in Priority |-> Len(request_queues[api][p])]]

\* hour_count / config.requests_per_hour raises ZeroDivisionError
GetApiStatusRaises == \E api \in DOMAIN api_configs : api_configs[api].requests_per_hour = 0

GetApiStatus ==
    /\ ret' = IF GetApiStatusRaises THEN Raise("get_api_status", "ZeroDivisionError")
              ELSE Ret("get_api_status", NoRequest)
    /\ UNCHANGED <<now, apiVars>>

(* -------------------------------- the clock ---------------------------- *)
\* a clock that stands still
TickStopped(d) ==
    /\ now' = now
    /\ UNCHANGED <<apiVars, ret, mdsVars>>

Tick(d) ==
    /\ now' = now + d
    /\ UNCHANGED <<apiVars, ret, mdsVars>>

(* ======================================================================== *)
(*                          MultiDataSourceManager                          *)
(* ======================================================================== *)
\* symbols are numbered; ProcessedData is the symbol and the time it was fetched
NoData == [symbol |-> 0, fetched_at |-> None]
ProcessedData(symbol, t) == [symbol |-> symbol, fetched_at |-> t]

NoBatch == [symbols |-> <<>>, delay |-> 0, attempted |-> {}, succeeded |-> {},
            all_ok |-> TRUE, fresh |-> FALSE, active |-> FALSE,
            max_retries |-> 0, attempts |-> <<>>, reattempted |-> FALSE]

Got(op, symbol, outcome, status, data, evicted) ==
    [op |-> op, symbol |-> symbol, outcome |-> outcome, status |-> status,
     data |-> data, evicted |-> evicted, at |-> now]

(* ------------------------------- the cache ----------------------------- *)
\* self.cache is a dict: a sequence of entries in insertion order, one per key
CacheEntry(symbol, data, t) == [symbol |-> symbol, data |-> data, cached_at |-> t]

CacheKeys(c) == {c[i].symbol : i \in DOMAIN c}

CacheIndex(c, symbol) ==
    IF symbol \in CacheKeys(c) THEN CHOOSE i \in DOMAIN c : c[i].symbol = symbol
    ELSE 0

\* del self.cache[key]
Remove(c, i) == SubSeq(c, 1, i - 1) \o SubSeq(c, i + 1, Len(c))

\* _get_cached_data at time t: the value or a miss, and the cache it leaves
Lookup(hit, data, c, stale) == [hit |-> hit, data |-> data, cache |-> c, stale |-> stale]

\* a lookup that reports the stale entry as a miss but leaves it in the cache
GetCachedDataKeepStale(c, symbol, t) ==
    LET i == CacheIndex(c, symbol)
    IN  IF i = 0 THEN Lookup(FALSE, NoData, c, FALSE)
        ELSE IF t - c[i].cached_at > cache_ttl THEN Lookup(FALSE, NoData, c, TRUE)
        ELSE Lookup(TRUE, c[i].data, c, FALSE)

GetCachedData(c, symbol, t) ==
    LET i == CacheIndex(c, symbol)
    IN  IF i = 0 THEN Lookup(FALSE, NoData, c, FALSE)
        ELSE IF t - c[i].cached_at > cache_ttl
             THEN Lookup(FALSE, NoData, Remove(c, i), TRUE)
        ELSE Lookup(TRUE, c[i].data, c, FALSE)

\* self.cache[symbol] = {...}: a new key goes last, an old key keeps its place
Store(c, symbol, data, t) ==
    LET i == CacheIndex(c, symbol)
    IN  IF i = 0 THEN Append(c, CacheEntry(symbol, data, t))
        ELSE [c EXCEPT ![i] = CacheEntry(symbol, data, t)]

\* the entry that was inserted first
OldestIndexFirstInserted(c) == 1

\* min(self.cache.keys(), key=cached_at): the first of the entries cached earliest
OldestIndex(c) ==
    CHOOSE i \in DOMAIN c :
        \A j \in DOMAIN c :
            \/ c[i].cached_at < c[j].cached_at
            \/ c[i].cached_at = c[j].cached_at /\ i <= j

\* _cache_data at time t
CacheData(c, symbol, data, t) ==
    LET stored == Store(c, symbol, data, t)
    IN  IF Len(stored) > CacheCapacity THEN Remove(stored, OldestIndex(stored))
        ELSE stored

\* the key _cache_data evicts, 0 when it evicts none
Evicted(c, symbol, data, t) ==
    LET stored == Store(c, symbol, data, t)
    IN  IF Len(stored) > CacheCapacity THEN stored[OldestIndex(stored)].symbol ELSE 0

CacheDataCall(symbol) ==
    /\ frames = <<>>
    /\ cache' = CacheData(cache, symbol, ProcessedData(symbol, now), now)
    /\ got' = Got("_cache_data", symbol, "", 0, ProcessedData(symbol, now),
                  Evicted(cache, symbol, ProcessedData(symbol, now), now))
    /\ UNCHANGED <<now, mds_history, frames, batch, returned>>

GetCachedDataCall(symbol) ==
    LET r == GetCachedData(cache, symbol, now)
    IN  /\ frames = <<>>
        /\ cache' = r.cache
        /\ got' = Got("_get_cached_data", symbol,
                      IF r.hit THEN "hit" ELSE IF r.stale THEN "stale" ELSE "miss",
                      0, r.data, 0)
        /\ UNCHANGED <<now, mds_history, frames, batch, returned>>

ClearCache ==
    /\ frames = <<>>
    /\ cache' = <<>>
    /\ got' = Got("clear_cache", 0, "", 0, NoData, 0)
    /\ UNCHANGED <<now, mds_history, frames, batch, returned>>

(* --------------------------- the inline limiter ------------------------ *)
Range(list) == {list[i] : i \in DOMAIN list}

Within(history, t, window) == Cardinality({i \in DOMAIN history : history[i] > t - window})

\* a check that raises only above the limit
CheckRateLimitsAboveLimit(history, t) ==
    \/ Within(history, t, HOUR) > MdsRequestsPerHour
    \/ Within(history, t, MINUTE) > MdsRequestsPerMinute

\* _check_rate_limits at time t: TRUE when it raises APIRateLimitError
CheckRateLimits(history, t) ==
    \/ Within(history, t, HOUR) >= MdsRequestsPerHour
    \/ Within(history, t, MINUTE) >= MdsRequestsPerMinute

\* a record that prunes but does not append
MdsRecordRequestPruneOnly(history, t) ==
    SelectSeq(history, LAMBDA req : req > t - RetentionHorizon)

\* _record_request at time t
MdsRecordRequest(history, t) ==
    SelectSeq(Append(history, t), LAMBDA req : req > t - RetentionHorizon)

(* ----------------------------- get_stock_info -------------------------- *)
enable_cache == TRUE
UpstreamStatus == {200, 429}

Fetched(outcome, status, data, c, history, evicted) ==
    [outcome |-> outcome, status |-> status, data |-> data, cache |-> c,
     history |-> history, evicted |-> evicted]

\* a fetch that records the request before it asks the upstream
GetStockInfoCountingFailures(c, history, symbol, force_refresh, status, t) ==
    LET consult == ~force_refresh /\ enable_cache
        look    == GetCachedData(c, symbol, t)
        c1      == IF consult THEN look.cache ELSE c
        data    == ProcessedData(symbol, t)
    IN  IF consult /\ look.hit
        THEN Fetched("hit", 0, look.data, c, history, 0)
        ELSE IF CheckRateLimits(history, t)
        THEN Fetched("rate_limited", 0, NoData, c1, history, 0)
        ELSE IF status # 200
        THEN Fetched("error", status, NoData, c1, MdsRecordRequest(history, t), 0)
        ELSE Fetched("fetched", status, data,
                     IF enable_cache THEN CacheData(c1, symbol, data, t) ELSE c1,
                     MdsRecordRequest(history, t),
                     IF enable_cache THEN Evicted(c1, symbol, data, t) ELSE 0)

\* get_stock_info at time t when the upstream would answer with status:
\* "hit" and "fetched" return data, "rate_limited" raises APIRateLimitError,
\* "error" raises DataFetchError
GetStockInfo(c, history, symbol, force_refresh, status, t) ==
    LET consult == ~force_refresh /\ enable_cache
        look    == GetCachedData(c, symbol, t)
        c1      == IF consult THEN look.cache ELSE c
        data    == ProcessedData(symbol, t)
    IN  IF consult /\ look.hit
        THEN Fetched("hit", 0, look.data, c, history, 0)
        ELSE IF CheckRateLimits(history, t)
        THEN Fetched("rate_limited", 0, NoData, c1, history, 0)
        ELSE IF status # 200
        THEN Fetched("error", status, NoData, c1, history, 0)
        ELSE Fetched("fetched", status, data,
                     IF enable_cache THEN CacheData(c1, symbol, data, t) ELSE c1,
                     MdsRecordRequest(history, t),
                     IF enable_cache THEN Evicted(c1, symbol, data, t) ELSE 0)

\* a manager without caching that still answers from the cache
GetStockInfoUncachedReadingCache(c, history, symbol, force_refresh, status, t) ==
    GetStockInfo(c, history, symbol, force_refresh, status, t)

\* get_stock_info of a manager whose enable_cache is False: no lookup and no
\* _cache_data, whatever force_refresh is
GetStockInfoUncached(c, history, symbol, force_refresh, status, t) ==
    IF CheckRateLimits(history, t)
    THEN Fetched("rate_limited", 0, NoData, c, history, 0)
    ELSE IF status # 200
    THEN Fetched("error", status, NoData, c, history, 0)
    ELSE Fetched("fetched", status, ProcessedData(symbol, t), c,
                 MdsRecordRequest(history, t), 0)

\* the upstream is asked only past the cache and the limiter
Consulted(r) == r.outcome \in {"error", "fetched"}

GetStockInfoCall(symbol, force_refresh, status) ==
    LET r == GetStockInfo(cache, mds_history, symbol, force_refresh, status, now)
    IN  /\ frames = <<>>
        /\ Consulted(r) \/ status = 200
        /\ cache' = r.cache
        /\ mds_history' = r.history
        /\ got' = Got("get_stock_info", symbol, r.outcome, r.status, r.data, r.evicted)
        /\ UNCHANGED <<now, frames, batch, returned>>

GetStockInfoUncachedCall(symbol, force_refresh, status) ==
    LET r == GetStockInfoUncached(cache, mds_history, symbol, force_refresh, status, now)
    IN  /\ frames = <<>>
        /\ Consulted(r) \/ status = 200
        /\ cache' = r.cache
        /\ mds_history' = r.history
        /\ got' = Got("get_stock_info", symbol, r.outcome, r.status, r.data, r.evicted)
        /\ UNCHANGED <<now, frames, batch, returned>>

(* --------------------------- get_multiple_stocks ----------------------- *)
\* one activation of get_multiple_stocks: i is the 1-based loop index,
\* pc is "loop", "await" (inside the recursive call) or "ret"
Frame(symbols, max_retries, delay) ==
    [symbols |-> symbols, i |-> 1, results |-> <<>>, failed |-> <<>>,
     max_retries |-> max_retries, delay |-> delay, pc |-> "loop"]

Top == frames[Len(frames)]

SetTop(frame) == [frames EXCEPT ![Len(frames)] = frame]

Succeeded(r) == r.outcome \in {"hit", "fetched"}

\* a loop that a failure ends
AfterAttemptAbort(frame, symbol, r) ==
    IF Succeeded(r)
    THEN [frame EXCEPT !.i = @ + 1, !.results = (symbol :> r.data) @@ @]
    ELSE [frame EXCEPT !.i = Len(frame.symbols) + 1, !.failed = Append(@, symbol)]

\* the loop body after get_stock_info returned or raised
AfterAttempt(frame, symbol, r) ==
    IF Succeeded(r)
    THEN [frame EXCEPT !.i = @ + 1, !.results = (symbol :> r.data) @@ @]
    ELSE [frame EXCEPT !.i = @ + 1, !.failed = Append(@, symbol)]

GmsCall(symbols, max_retries, delay) ==
    /\ frames = <<>>
    /\ frames' = <<Frame(symbols, max_retries, delay)>>
    /\ batch' = [symbols |-> symbols, delay |-> delay, attempted |-> {},
                 succeeded |-> {}, all_ok |-> TRUE,
                 fresh |-> mds_history = <<>> /\ cache = <<>>, active |-> TRUE,
                 max_retries |-> max_retries,
                 attempts |-> [symbol \in Range(symbols) |-> 0],
                 reattempted |-> FALSE]
    /\ returned' = <<>>
    /\ got' = Got("get_multiple_stocks", 0, "called", 0, NoData, 0)
    /\ UNCHANGED <<now, mds_history, cache>>

\* one iteration: the sleep between requests, get_stock_info, and the
\* 60-second sleep after an APIRateLimitError
GmsIterate(status) ==
    /\ frames # <<>>
    /\ Top.pc = "loop"
    /\ Top.i <= Len(Top.symbols)
    /\ LET symbol == Top.symbols[Top.i]
           t      == IF Top.i > 1 /\ Top.delay > 0 THEN now + Top.delay ELSE now
           r      == GetStockInfo(cache, mds_history, symbol, FALSE, status, t)
       IN  /\ Consulted(r) \/ status = 200
           /\ now' = IF r.outcome = "rate_limited" THEN t + RateLimitCooldown ELSE t
           /\ cache' = r.cache
           /\ mds_history' = r.history
           /\ frames' = SetTop(AfterAttempt(Top, symbol, r))
           /\ batch' = [batch EXCEPT
                          !.attempted = @ \cup {symbol},
                          !.succeeded = IF Succeeded(r) THEN @ \cup {symbol} ELSE @,
                          !.all_ok = @ /\ r.outcome # "error",
                          !.attempts[symbol] = @ + 1,
                          !.reattempted = @ \/ symbol \in batch.succeeded]
           /\ got' = [Got("get_stock_info", symbol, r.outcome, r.status, r.data,
                          r.evicted) EXCEPT !.at = t]
    /\ UNCHANGED <<apiVars, ret, returned>>

\* a retry that goes through the whole list again
GmsEndPassRetryAll ==
    /\ frames # <<>>
    /\ Top.pc = "loop"
    /\ Top.i > Len(Top.symbols)
    /\ IF Top.failed # <<>> /\ Top.max_retries > 0
       THEN /\ now' = now + RetryPause
            /\ frames' = Append(SetTop([Top EXCEPT !.pc = "await"]),
                                Frame(Top.symbols, Top.max_retries - 1, Top.delay * 2))
       ELSE /\ now' = now
            /\ frames' = SetTop([Top EXCEPT !.pc = "ret"])
    /\ UNCHANGED <<steps, apiVars, ret, mds_history, cache, batch, returned, got>>

\* after the loop: the retry of the failed symbols, or the return
GmsEndPass ==
    /\ frames # <<>>
    /\ Top.pc = "loop"
    /\ Top.i > Len(Top.symbols)
    /\ IF Top.failed # <<>> /\ Top.max_retries > 0
       THEN /\ now' = now + RetryPause
            /\ frames' = Append(SetTop([Top EXCEPT !.pc = "await"]),
                                Frame(Top.failed, Top.max_retries - 1, Top.delay * 2))
       ELSE /\ now' = now
            /\ frames' = SetTop([Top EXCEPT !.pc = "ret"])
    /\ UNCHANGED <<steps, apiVars, ret, mds_history, cache, batch, returned, got>>

\* return results: into results.update(retry_results) of the caller's
\* activation, or to the caller of the batch
GmsReturn ==
    /\ frames # <<>>
    /\ Top.pc = "ret"
    /\ LET rest == SubSeq(frames, 1, Len(frames) - 1)
       IN  IF rest = <<>>
           THEN /\ frames' = <<>>
                /\ returned' = <<Top.results>>
                /\ batch' = [batch EXCEPT !.active = FALSE]
                /\ got' = Got("get_multiple_stocks", 0, "returned", 0, NoData, 0)
           ELSE /\ frames' = [rest EXCEPT ![Len(rest)] =
                                 [@ EXCEPT !.results = Top.results @@ @, !.pc = "ret"]]
                /\ UNCHANGED <<returned, batch, got>>
    /\ UNCHANGED <<now, steps, apiVars, ret, mds_history, cache>>

(* ------------------------------ construction --------------------------- *)
\* MultiDataSourceManager.__init__
InitMds ==
    /\ mds_history = <<>>
    /\ cache = <<>>
    /\ frames = <<>>
    /\ batch = NoBatch
    /\ returned = <<>>
    /\ got = Got("init", 0, "", 0, NoData, 0)

\* _load_settings: the defaults, with requests_per_hour and backoff_enabled
\* replaced by the stored 'requests' and 'backoff_enabled' where present
LoadSettings(settings) ==
    [a \in Apis |->
        [requests_per_hour |->
             IF settings[a].requests = Absent THEN DefaultRequestsPerHour
             ELSE settings[a].requests,
         requests_per_minute |-> DefaultRequestsPerMinute,
         backoff_enabled |->
             IF settings[a].backoff_enabled = Absent THEN TRUE
             ELSE settings[a].backoff_enabled = 1]]

\* the database the first manager is constructed over: the one
\* DatabaseInitializer creates, which has no 'settings' table, or one that has
\* the table and an 'api_limits' entry
StoredChoices ==
    {[settings_table |-> FALSE, api_limits |-> [a \in Apis |-> NoSetting],
      rows |-> EmptyTable, conn |-> NoConnection]}
    \cup {[settings_table |-> TRUE,
           api_limits |-> [a \in Apis |-> [requests |-> h, backoff_enabled |-> 1]],
           rows |-> EmptyTable, conn |-> NoConnection] :
              h \in HourLimitChoices}

\* __init__: the defaults, then _load_settings; histories and queues empty,
\* backoff_until = now
InitApi ==
    /\ db \in StoredChoices
    /\ api_configs = LoadSettings(GetSetting)
    /\ request_history = [a \in Apis |-> <<>>]
    /\ request_queues = [a \in Apis |-> [p \in Priority |-> <<>>]]
    /\ backoff_until = [a \in Apis |-> now]
    /\ api_delay = [a \in Apis |-> None]
    /\ recorded = [a \in Apis |-> <<>>]
    /\ lock_log = [a \in Apis |-> <<>>]
    /\ ret = Ret("init", NoRequest)

\* a new AdaptiveAPIManager constructed over the same database
Construct ==
    /\ api_configs' = LoadSettings(GetSetting)
    /\ request_history' = [a \in Apis |-> <<>>]
    /\ request_queues' = [a \in Apis |-> [p \in Priority |-> <<>>]]
    /\ backoff_until' = [a \in Apis |-> now]
    /\ api_delay' = [a \in Apis |-> None]
    /\ recorded' = [a \in Apis |-> <<>>]
    /\ lock_log' = [a \in Apis |-> <<>>]
    /\ ret' = Ret("init", NoRequest)
    /\ UNCHANGED <<now, callers, db>>

\* one execution context, which is not inside a call
Contexts == {1, 2}

Idle == [api |-> "", symbol |-> "", priority |-> 0]

NoCallers == [mutex |-> FALSE, at |-> [c \in Contexts |-> Idle]]

Init ==
    /\ now = 0
    /\ steps = 0
    /\ InitApi
    /\ callers = NoCallers
    /\ issued = [a \in Apis |-> {}]
    /\ InitMds

(* ------------------------------ the system ----------------------------- *)
Step ==
    steps < MaxSteps /\ steps' = steps + 1 /\ UNCHANGED <<mdsVars, issued>>

Next ==
    \/ \E d \in TickSteps : Step /\ Tick(d)
    \/ \E api \in Apis, p \in Priority : Step /\ CanMakeRequestCall(api, p)
    \/ \E api \in Apis, s \in Symbols, p \in Priority :
          Step /\ RequestApiSlot(api, s, p)
    \/ \E api \in Apis : Step /\ GetNextRequest(api)
    \/ \E api \in Apis, st \in StatusCodes : Step /\ RecordApiResponse(api, st, "ok")
    \/ \E api \in Apis, h \in HourLimitChoices \cup {Absent},
          m \in MinuteLimitChoices \cup {Absent}, b \in {0, 1, Absent} :
          Step /\ UpdateApiConfig(api, h, m, b)
    \/ Step /\ GetApiStatus

Spec == Init /\ [][Next]_vars

(* ------------------ SpecQuota: the hourly quota used up ----------------- *)
\* A manager with the default limits that has recorded DefaultRequestsPerHour
\* requests in the hour before QuotaNow: the last k of them r seconds ago,
\* the others 30 seconds apart from the start of the hour (off seconds in).
QuotaNow == 2 * HOUR
QuotaSpacing == MINUTE \div 2
QuotaTickSteps == {1, 60}

Placement(k, off, r) ==
    [i \in 1..DefaultRequestsPerHour |->
        IF i <= DefaultRequestsPerHour - k
        THEN QuotaNow - HOUR + off + QuotaSpacing * (i - 1)
        ELSE QuotaNow - r]

InitQuota ==
    /\ now = QuotaNow
    /\ steps = 0
    /\ api_configs = [a \in Apis |->
            [requests_per_hour |-> DefaultRequestsPerHour,
             requests_per_minute |-> DefaultRequestsPerMinute,
             backoff_enabled |-> TRUE]]
    /\ \E k \in 0..(DefaultRequestsPerMinute + 1), off \in {0, 1}, r \in {0, 1, MINUTE} :
          /\ request_history = [a \in Apis |-> Placement(k, off, r)]
          /\ recorded = request_history
    /\ request_queues = [a \in Apis |-> [p \in Priority |-> <<>>]]
    /\ backoff_until = [a \in Apis |-> 0]
    /\ api_delay = [a \in Apis |-> None]
    /\ lock_log = [a \in Apis |-> <<>>]
    /\ db = [settings_table |-> FALSE, api_limits |-> [a \in Apis |-> NoSetting],
             rows |-> EmptyTable, conn |-> NoConnection]
    /\ ret = Ret("init", NoRequest)
    /\ callers = NoCallers
    /\ issued = [a \in Apis |-> {}]
    /\ InitMds

StepQuota ==
    steps < MaxQuotaSteps /\ steps' = steps + 1 /\ UNCHANGED <<mdsVars, issued>>

NextQuota ==
    \/ \E d \in QuotaTickSteps : StepQuota /\ Tick(d)
    \/ \E api \in Apis, p \in Priority : StepQuota /\ CanMakeRequestCall(api, p)
    \/ \E api \in Apis, s \in Symbols, p \in Priority :
          StepQuota /\ RequestApiSlot(api, s, p)
    \/ \E api \in Apis, m \in {None, DefaultRequestsPerMinute} :
          StepQuota /\ UpdateApiConfig(api, Absent, m, Absent)

SpecQuota == InitQuota /\ [][NextQuota]_vars

(* ---------------------- SpecCache: the result cache -------------------- *)
\* A cache that get_stock_info has filled with symbols 1..n, five fetches a
\* minute (the inline per-minute limit); with refreshed, symbol 1 was fetched
\* again at FilledAt and keeps its place in the dict.
FilledAt == HOUR
CacheSymbols == {1, 2, 101, 102}
CacheTickSteps == {1, 900}

FetchedAt(i, refreshed) ==
    IF refreshed /\ i = 1 THEN FilledAt ELSE MINUTE * ((i - 1) \div MdsRequestsPerMinute)

Prefilled(n, refreshed) ==
    [i \in 1..n |-> CacheEntry(i, ProcessedData(i, FetchedAt(i, refreshed)),
                               FetchedAt(i, refreshed))]

InitCache ==
    /\ now = FilledAt
    /\ steps = 0
    /\ InitApi
    /\ callers = NoCallers
    /\ issued = [a \in Apis |-> {}]
    /\ \/ cache = <<>>
       \/ \E n \in {CacheCapacity - 1, CacheCapacity}, refreshed \in BOOLEAN :
             cache = Prefilled(n, refreshed)
    /\ mds_history = [i \in 1..Len(cache) |-> cache[i].cached_at]
    /\ frames = <<>>
    /\ batch = NoBatch
    /\ returned = <<>>
    /\ got = Got("init", 0, "", 0, NoData, 0)

StepCache == steps < MaxCacheSteps /\ steps' = steps + 1 /\ UNCHANGED <<apiVars, ret>>

NextCache ==
    \/ \E d \in CacheTickSteps : StepCache /\ Tick(d)
    \/ \E symbol \in CacheSymbols : StepCache /\ CacheDataCall(symbol)
    \/ \E symbol \in CacheSymbols : StepCache /\ GetCachedDataCall(symbol)
    \/ StepCache /\ ClearCache

SpecCache == InitCache /\ [][NextCache]_vars

(* ----------------------- SpecFetch: fetching stocks -------------------- *)
\* the batches: five symbols without a pause, one symbol more than the
\* per-minute limit, the default pause and retries, and a single retry
FiveSymbols == <<1, 2, 3, 4, 5>>
Batches ==
    { <<FiveSymbols, 3, 0>>, <<FiveSymbols \o <<6>>, 1, 0>>,
      <<<<1, 2>>, 3, 1>>, <<<<1, 2>>, 1, 0>> }
FetchSymbols == {1, 7}
FetchTickSteps == {MINUTE, HOUR}

StepFetch == steps < MaxFetchSteps /\ steps' = steps + 1 /\ UNCHANGED <<apiVars, ret>>

\* a failing upstream answer inside a batch counts as a step
FailureCounted ==
    IF got'.outcome = "error" THEN steps < MaxFetchSteps /\ steps' = steps + 1
    ELSE steps' = steps

NextFetch ==
    \/ \E d \in FetchTickSteps : frames = <<>> /\ StepFetch /\ Tick(d)
    \/ \E b \in Batches : StepFetch /\ GmsCall(b[1], b[2], b[3])
    \/ \E status \in UpstreamStatus : GmsIterate(status) /\ FailureCounted
    \/ GmsEndPass
    \/ GmsReturn
    \/ \E symbol \in FetchSymbols, force_refresh \in BOOLEAN, status \in UpstreamStatus :
          StepFetch /\ GetStockInfoCall(symbol, force_refresh, status)
    \/ StepFetch /\ ClearCache

SpecFetch == Init /\ [][NextFetch]_vars

(* ------ SpecTwin: the two limiters over the same admissions ------------ *)
\* n admissions made at the same instant
AdmittedAt(n, t) == [i \in 1..n |-> t]

\* no admission, or a count just below or at a limit, made an hour ago, a
\* minute ago, or a second after either
TwinHistories ==
    {<<>>} \cup
    { AdmittedAt(n, t) :
        n \in {MdsRequestsPerMinute - 1, MdsRequestsPerMinute,
               MdsRequestsPerHour - 1, MdsRequestsPerHour},
        t \in {0, 1, HOUR - MINUTE, HOUR - MINUTE + 1} }

\* an AdaptiveAPIManager configured with the limits of the inline check,
\* both holding the same admissions at time HOUR
InitTwin ==
    /\ now = HOUR
    /\ steps = 0
    /\ api_configs = [a \in Apis |->
            [requests_per_hour |-> MdsRequestsPerHour,
             requests_per_minute |-> MdsRequestsPerMinute,
             backoff_enabled |-> TRUE]]
    /\ \E history \in TwinHistories :
          /\ request_history = [a \in Apis |-> history]
          /\ recorded = request_history
          /\ mds_history = history
    /\ \E until \in {0, HOUR + MINUTE} : backoff_until = [a \in Apis |-> until]
    /\ request_queues = [a \in Apis |-> [p \in Priority |-> <<>>]]
    /\ api_delay = [a \in Apis |-> None]
    /\ lock_log = [a \in Apis |-> <<>>]
    /\ db = [settings_table |-> FALSE, api_limits |-> [a \in Apis |-> NoSetting],
             rows |-> EmptyTable, conn |-> NoConnection]
    /\ ret = Ret("init", NoRequest)
    /\ callers = NoCallers
    /\ issued = [a \in Apis |-> {}]
    /\ cache = <<>>
    /\ frames = <<>>
    /\ batch = NoBatch
    /\ returned = <<>>
    /\ got = Got("init", 0, "", 0, NoData, 0)

\* can_make_request(api, NORMAL) and _check_rate_limits called at the same instant
BothChecks(api) ==
    /\ request_history' = [request_history EXCEPT ![api] = HistoryAfterCheck(api)]
    /\ ret' = IF CanMakeRequest(api, NORMAL).raised
              THEN Raise("can_make_request", "ZeroDivisionError")
              ELSE Returned("can_make_request",
                            IF CanMakeRequest(api, NORMAL).allowed THEN "True"
                            ELSE "False")
    /\ got' = Got("_check_rate_limits", 0,
                  IF CheckRateLimits(mds_history, now) THEN "rate_limited" ELSE "passed",
                  0, NoData, 0)
    /\ UNCHANGED <<now, callers, issued, api_configs, request_queues, backoff_until,
                   api_delay, recorded, lock_log, db, mds_history, cache, frames,
                   batch, returned>>

\* the two _record_request, for one admission
BothRecord(api) ==
    /\ request_history' = [request_history EXCEPT ![api] = RecordRequest(@)]
    /\ recorded' = [recorded EXCEPT ![api] = RecordRequest(@)]
    /\ mds_history' = MdsRecordRequest(mds_history, now)
    /\ ret' = Ret("_record_request", NoRequest)
    /\ got' = Got("_record_request", 0, "", 0, NoData, 0)
    /\ UNCHANGED <<now, callers, issued, api_configs, request_queues, backoff_until,
                   api_delay, lock_log, db, cache, frames, batch, returned>>

StepTwin == steps < MaxTwinSteps /\ steps' = steps + 1

NextTwin ==
    \/ \E d \in {1, MINUTE} : StepTwin /\ Tick(d)
    \/ \E api \in Apis : StepTwin /\ BothChecks(api)
    \/ \E api \in Apis : StepTwin /\ BothRecord(api)

SpecTwin == InitTwin /\ [][NextTwin]_vars

(* ------ SpecBypass: get_stock_info with the quota used up or not -------- *)
\* symbol 1 cached just now or longer ago than cache_ttl, symbol 7 not cached
BypassCaches ==
    { <<>>,
      <<CacheEntry(1, ProcessedData(1, HOUR), HOUR)>>,
      <<CacheEntry(1, ProcessedData(1, 0), 0)>> }

\* at time HOUR: no request so far, or the minute's limit of them just made
InitBypass ==
    /\ now = HOUR
    /\ steps = 0
    /\ InitApi
    /\ callers = NoCallers
    /\ issued = [a \in Apis |-> {}]
    /\ cache \in BypassCaches
    /\ mds_history \in {<<>>, AdmittedAt(MdsRequestsPerMinute, HOUR)}
    /\ frames = <<>>
    /\ batch = NoBatch
    /\ returned = <<>>
    /\ got = Got("init", 0, "", 0, NoData, 0)

StepBypass == steps < MaxBypassSteps /\ steps' = steps + 1 /\ UNCHANGED <<apiVars, ret>>

NextBypass ==
    \/ \E d \in {MINUTE, cache_ttl} : StepBypass /\ Tick(d)
    \/ \E symbol \in FetchSymbols, force_refresh \in BOOLEAN, status \in UpstreamStatus :
          StepBypass /\ GetStockInfoCall(symbol, force_refresh, status)
    \/ \E symbol \in FetchSymbols, force_refresh \in BOOLEAN, status \in UpstreamStatus :
          StepBypass /\ GetStockInfoUncachedCall(symbol, force_refresh, status)

SpecBypass == InitBypass /\ [][NextBypass]_vars

(* ------ SpecStore: the settings store, the usage log and restarts ------ *)
StepStore ==
    steps < MaxStoreSteps /\ steps' = steps + 1 /\ UNCHANGED <<mdsVars, issued>>

\* response_status: also a redirect, another client error, another server error
AllStatusCodes == StatusCodes \cup {301, 404, 503}

NextStore ==
    \/ \E d \in {1, ServerErrorBackoff} : StepStore /\ Tick(d)
    \/ \E api \in Apis, p \in {NORMAL, CRITICAL} : StepStore /\ CanMakeRequestCall(api, p)
    \/ \E api \in Apis, st \in AllStatusCodes, sink \in SinkOutcomes :
          StepStore /\ RecordApiResponse(api, st, sink)
    \/ \E api \in Apis, h \in HourLimitChoices \cup {Absent},
          m \in MinuteLimitChoices \cup {Absent}, b \in {0, 1, Absent} :
          StepStore /\ UpdateApiConfig(api, h, m, b)
    \/ StepStore /\ Construct

SpecStore == Init /\ [][NextStore]_vars

(* ------- SpecRace: two contexts inside request_api_slot at once -------- *)
\* callers that do not take the mutex
MutexIgnored(api) == TRUE

\* the per-api mutex, where the callers use one, is free when no other
\* context is between its check and its record for this api
MutexFree(api) ==
    callers.mutex => \A c \in Contexts : callers.at[c].api # api

\* the first statement of request_api_slot: can_make_request(api_name,
\* priority); a refused request is queued at once, an admitted one is held
\* by the context until its _record_request
SlotCheck(c, api, symbol, priority) ==
    LET r == CanMakeRequest(api, priority)
    IN  /\ callers.at[c] = Idle
        /\ MutexFree(api)
        /\ request_history' = [request_history EXCEPT ![api] = HistoryAfterCheck(api)]
        /\ callers' = IF r.allowed
                      THEN [callers EXCEPT !.at[c] =
                              [api |-> api, symbol |-> symbol, priority |-> priority]]
                      ELSE callers
        /\ request_queues' = [request_queues EXCEPT
                                ![api][priority] =
                                    IF r.allowed \/ r.raised THEN @
                                    ELSE Append(@, APIRequest(symbol, priority, now))]
        /\ ret' = IF r.raised THEN Raise("request_api_slot", "ZeroDivisionError")
                  ELSE IF r.allowed THEN Ret("can_make_request", NoRequest)
                  ELSE Returned("request_api_slot", "False")
        /\ UNCHANGED <<now, api_configs, backoff_until, api_delay, recorded,
                       lock_log, db>>

\* the second statement: self._record_request(api_name, symbol, request_type)
SlotRecord(c) ==
    LET api == callers.at[c].api
    IN  /\ callers.at[c] # Idle
        /\ request_history' = [request_history EXCEPT ![api] = RecordRequest(@)]
        /\ recorded' = [recorded EXCEPT ![api] = RecordRequest(@)]
        /\ callers' = [callers EXCEPT !.at[c] = Idle]
        /\ ret' = Returned("request_api_slot", "True")
        /\ UNCHANGED <<now, api_configs, request_queues, backoff_until, api_delay,
                       lock_log, db>>

\* the callers either all take the mutex or none does
InitRace ==
    /\ now = 0
    /\ steps = 0
    /\ InitApi
    /\ \E mutex \in BOOLEAN : callers = [NoCallers EXCEPT !.mutex = mutex]
    /\ issued = [a \in Apis |-> {}]
    /\ InitMds

StepRace ==
    steps < MaxRaceSteps /\ steps' = steps + 1 /\ UNCHANGED <<mdsVars, issued>>

\* the limits are configured before the first request
NextRace ==
    \/ \E d \in {1, MINUTE} : StepRace /\ Tick(d)
    \/ \E c \in Contexts, api \in Apis, s \in Symbols, p \in {NORMAL, CRITICAL} :
          StepRace /\ SlotCheck(c, api, s, p)
    \/ \E c \in Contexts : StepRace /\ SlotRecord(c)
    \/ \E api \in Apis, m \in MinuteLimitChoices :
          /\ steps = 0
          /\ StepRace /\ UpdateApiConfig(api, Absent, m, Absent)

SpecRace == InitRace /\ [][NextRace]_vars

(* ------------------- SpecTxn: transaction blocks ----------------------- *)
StepTxn ==
    steps < MaxTxnSteps /\ steps' = steps + 1 /\ UNCHANGED <<mdsVars, issued>>

NextTxn ==
    \/ StepTxn /\ TransactionEnter
    \/ \E key \in TxnKeys, value \in TxnValues \cup {Absent} :
          StepTxn /\ TransactionExecute(key, value)
    \/ \E outcome \in BlockOutcomes : StepTxn /\ TransactionExit(outcome)

SpecTxn == Init /\ [][NextTxn]_vars

(* ---------- SpecDrain: get_next_request over queues already filled ------ *)
\* A manager with the default limits at DrainNow whose queues hold requests
\* that were refused earlier (during a lock or a full minute): in each tier
\* in the order they were queued, given by their ages at DrainNow.
DrainNow == 2 * HOUR

Queued(priority, ages) ==
    [i \in 1..Len(ages) |->
        APIRequest(CHOOSE s \in Symbols : TRUE, priority, DrainNow - ages[i])]

DrainQueues ==
    { << Queued(LOW, low), <<>>, Queued(HIGH, high), Queued(CRITICAL, crit) >> :
        low  \in {<<>>, <<HOUR + 1>>, <<1>>},
        high \in {<<>>, <<HOUR + 1>>, <<HOUR + 1, HOUR>>, <<HOUR + 1, 1>>, <<1>>},
        crit \in {<<>>, <<2>>} }

\* no admission in the last hour, or a full minute of them 30 seconds ago
DrainHistories ==
    {<<>>, [i \in 1..DefaultRequestsPerMinute |-> DrainNow - MINUTE \div 2]}

InitDrain ==
    /\ now = DrainNow
    /\ steps = 0
    /\ api_configs = [a \in Apis |->
            [requests_per_hour |-> DefaultRequestsPerHour,
             requests_per_minute |-> DefaultRequestsPerMinute,
             backoff_enabled |-> TRUE]]
    /\ \E queues \in DrainQueues : request_queues = [a \in Apis |-> queues]
    /\ \E history \in DrainHistories :
          /\ request_history = [a \in Apis |-> history]
          /\ recorded = request_history
    /\ \E until \in {0, DrainNow + ServerErrorBackoff} :
          backoff_until = [a \in Apis |-> until]
    /\ api_delay = [a \in Apis |-> None]
    /\ lock_log = [a \in Apis |-> <<>>]
    /\ db = [settings_table |-> FALSE, api_limits |-> [a \in Apis |-> NoSetting],
             rows |-> EmptyTable, conn |-> NoConnection]
    /\ ret = Ret("init", NoRequest)
    /\ callers = NoCallers
    /\ issued = [a \in Apis |-> {}]
    /\ InitMds

StepDrain ==
    steps < MaxDrainSteps /\ steps' = steps + 1 /\ UNCHANGED <<mdsVars, issued>>

NextDrain ==
    \/ \E d \in {1, ServerErrorBackoff, HOUR} : StepDrain /\ Tick(d)
    \/ \E api \in Apis : StepDrain /\ GetNextRequest(api)

SpecDrain == InitDrain /\ [][NextDrain]_vars

(* ------- SpecBackoff: a manager that has seen some 429 reports ---------- *)
\* The state k successive 429 reports at time 0 leave behind, backoff being
\* enabled: the delay doubled k times under the ceiling, the hourly limit
\* shrunk k times, the lock set by the last of them.
RECURSIVE DelayAfter(_)
DelayAfter(k) == IF k = 0 THEN base_delay ELSE Min(DelayAfter(k - 1) * 2, max_delay)

RECURSIVE LimitAfter(_)
LimitAfter(k) ==
    IF k = 0 THEN DefaultRequestsPerHour ELSE ShrinkLimit(LimitAfter(k - 1))

ReportsBefore == {0, 1, 7, 8, 9}

InitBackoff ==
    /\ now = 0
    /\ steps = 0
    /\ \E k \in ReportsBefore :
          /\ api_configs = [a \in Apis |->
                [requests_per_hour |-> LimitAfter(k),
                 requests_per_minute |-> DefaultRequestsPerMinute,
                 backoff_enabled |-> TRUE]]
          /\ api_delay = [a \in Apis |-> IF k = 0 THEN None ELSE DelayAfter(k)]
          /\ backoff_until = [a \in Apis |-> IF k = 0 THEN 0 ELSE DelayAfter(k)]
          /\ lock_log = [a \in Apis |-> [i \in 1..k |-> DelayAfter(i)]]
    /\ request_history = [a \in Apis |-> <<>>]
    /\ recorded = request_history
    /\ request_queues = [a \in Apis |-> [p \in Priority |-> <<>>]]
    /\ db = [settings_table |-> FALSE, api_limits |-> [a \in Apis |-> NoSetting],
             rows |-> EmptyTable, conn |-> NoConnection]
    /\ ret = Ret("init", NoRequest)
    /\ callers = NoCallers
    /\ issued = [a \in Apis |-> {}]
    /\ InitMds

StepBackoff ==
    steps < MaxBackoffSteps /\ steps' = steps + 1 /\ UNCHANGED <<mdsVars, issued>>

NextBackoff ==
    \/ \E d \in {1, max_delay} : StepBackoff /\ Tick(d)
    \/ \E api \in Apis, s \in Symbols, p \in {NORMAL, CRITICAL} :
          StepBackoff /\ RequestApiSlot(api, s, p)
    \/ \E api \in Apis : StepBackoff /\ GetNextRequest(api)
    \/ \E api \in Apis, st \in StatusCodes : StepBackoff /\ RecordApiResponse(api, st, "ok")
    \/ \E api \in Apis, b \in {0, 1} :
          StepBackoff /\ UpdateApiConfig(api, Absent, Absent, b)

SpecBackoff == InitBackoff /\ [][NextBackoff]_vars

\* ---- get_next_request called again and again while time passes, with no
\* ---- request_api_slot and no record_api_response in between

WaitEnd == DrainNow + MaxWaitHours * HOUR

WaitingQueues ==
    { << Queued(LOW, low), Queued(NORMAL, normal), Queued(HIGH, high),
         Queued(CRITICAL, crit) >> :
        low    \in {<<>>, <<1>>},
        normal \in {<<>>, <<HOUR + 1, 1>>},
        high   \in {<<>>, <<2, 1>>},
        crit   \in {<<>>, <<2>>} }

\* the hourly limit as constructed, after 16 reports of 429 (1) and after 17 (0)
ReportsBeforeWait == {0, 16, 17}

InitWait ==
    /\ now = DrainNow
    /\ steps = 0
    /\ \E k \in ReportsBeforeWait :
          api_configs = [a \in Apis |->
                [requests_per_hour |-> LimitAfter(k),
                 requests_per_minute |-> DefaultRequestsPerMinute,
                 backoff_enabled |-> TRUE]]
    /\ \E queues \in WaitingQueues : request_queues = [a \in Apis |-> queues]
    /\ \E history \in DrainHistories :
          /\ request_history = [a \in Apis |-> history]
          /\ recorded = request_history
    /\ \E until \in {0, DrainNow + ForbiddenBackoff} :
          backoff_until = [a \in Apis |-> until]
    /\ api_delay = [a \in Apis |-> None]
    /\ lock_log = [a \in Apis |-> <<>>]
    /\ db = [settings_table |-> FALSE, api_limits |-> [a \in Apis |-> NoSetting],
             rows |-> EmptyTable, conn |-> NoConnection]
    /\ ret = Ret("init", NoRequest)
    /\ callers = NoCallers
    /\ issued = [a \in Apis |-> {}]
    /\ InitMds

StepWait == UNCHANGED <<steps, mdsVars, issued>>

TimePasses == \E d \in {ForbiddenBackoff, HOUR} : now + d <= WaitEnd /\ StepWait /\ Tick(d)

DrainAgain(api) == StepWait /\ GetNextRequest(api)

NextWait ==
    \/ TimePasses
    \/ \E api \in Apis : DrainAgain(api)

SpecWait ==
    /\ InitWait
    /\ [][NextWait]_vars
    /\ WF_vars(TimePasses)
    /\ \A api \in Apis : WF_vars(DrainAgain(api))

(* ------ SpecLimits: admissions and drains while the limits stay put ----- *)
\* the limits update_api_config has set before the first request
LimitChoices ==
    [requests_per_hour : {2, 5}, requests_per_minute : {1, DefaultRequestsPerMinute},
     backoff_enabled : {TRUE}]

InitLimits ==
    /\ now = 0
    /\ steps = 0
    /\ \E config \in LimitChoices : api_configs = [a \in Apis |-> config]
    /\ request_history = [a \in Apis |-> <<>>]
    /\ recorded = request_history
    /\ request_queues = [a \in Apis |-> [p \in Priority |-> <<>>]]
    /\ backoff_until = [a \in Apis |-> 0]
    /\ api_delay = [a \in Apis |-> None]
    /\ lock_log = [a \in Apis |-> <<>>]
    /\ db = [settings_table |-> FALSE, api_limits |-> [a \in Apis |-> NoSetting],
             rows |-> EmptyTable, conn |-> NoConnection]
    /\ ret = Ret("init", NoRequest)
    /\ callers = NoCallers
    /\ issued = [a \in Apis |-> {}]
    /\ InitMds

StepLimits == steps < MaxLimitSteps /\ steps' = steps + 1 /\ UNCHANGED mdsVars

NextLimits ==
    \/ \E d \in {1, MINUTE, HOUR} : StepLimits /\ Tick(d)
    \/ \E api \in Apis, s \in Symbols, p \in Priority :
          /\ StepLimits /\ RequestApiSlot(api, s, p)
          /\ issued' = [issued EXCEPT ![api] = @ \cup {p}]
    \/ \E api \in Apis :
          StepLimits /\ GetNextRequest(api) /\ issued' = issued
    \/ \E api \in Apis :
          /\ StepLimits /\ RecordApiResponse(api, 500, "ok")
          /\ issued' = issued

SpecLimits == InitLimits /\ [][NextLimits]_vars

(* ------------- SpecUnknown: calls that name any api_name --------------- *)
AnyApi == Apis \cup UnknownApis

StepUnknown ==
    steps < MaxUnknownSteps /\ steps' = steps + 1 /\ UNCHANGED <<mdsVars, issued>>

NextUnknown ==
    \/ \E d \in TickSteps : StepUnknown /\ Tick(d)
    \/ \E api \in AnyApi, p \in Priority : StepUnknown /\ CanMakeRequestCall(api, p)
    \/ \E api \in AnyApi, s \in Symbols, p \in Priority :
          StepUnknown /\ RequestApiSlot(api, s, p)
    \/ \E api \in AnyApi : StepUnknown /\ GetNextRequest(api)
    \/ \E api \in AnyApi, st \in StatusCodes :
          StepUnknown /\ RecordApiResponse(api, st, "ok")
    \/ \E api \in AnyApi, h \in HourLimitChoices \cup {Absent} :
          StepUnknown /\ UpdateApiConfig(api, h, Absent, Absent)

SpecUnknown == Init /\ [][NextUnknown]_vars

(* ------------- SpecRetry: batches over a failing upstream -------------- *)
\* Any upstream answer may fail, any number of times. A call of
\* get_multiple_stocks runs to its return: no step of it waits for anything
\* but a finite sleep, hence the weak fairness of its three steps.
RetryBatches ==
    { <<<<1, 2>>, 3, 1>>, <<<<7, 7>>, 1, 0>>, <<FiveSymbols \o <<6>>, 0, 0>> }

NextRetry ==
    \/ \E b \in RetryBatches :
          /\ steps < MaxBatches /\ steps' = steps + 1
          /\ GmsCall(b[1], b[2], b[3])
          /\ UNCHANGED <<apiVars, ret>>
    \/ \E status \in UpstreamStatus : GmsIterate(status) /\ steps' = steps
    \/ GmsEndPass
    \/ GmsReturn

SpecRetry ==
    /\ Init
    /\ [][NextRetry]_vars
    /\ WF_vars(\E status \in UpstreamStatus : GmsIterate(status) /\ steps' = steps)
    /\ WF_vars(GmsEndPass)
    /\ WF_vars(GmsReturn)

(* ======================================================================== *)
(*                          AdaptiveAPIManager claims                       *)
(* ======================================================================== *)

(* C1: while now < backoff_until[api], can_make_request denies every        *)
(* priority and the wait it returns is exactly backoff_until[api] - now,    *)
(* whatever the hour and minute counts and the limits are.                  *)
C1_LockDeniesAll ==
    \A api \in Apis, p \in Priority :
        Locked(api) =>
            CanMakeRequest(api, p) = Result(FALSE, backoff_until[api] - now, 1, FALSE)

\* a locked api with an empty window, asked and refused
C1_Witness ==
    \E api \in Apis :
        /\ Locked(api)
        /\ ret.op = "can_make_request"
        /\ CountRequestsInWindow(request_history[api], HOUR) = 0
        /\ ~CanMakeRequest(api, CRITICAL).allowed

(* C3: from a fresh backoff state with base_delay = 1 and backoff enabled,  *)
(* the first three RATE_LIMITED reports lock for 1, 2 and 4 seconds (each   *)
(* capped at max_delay).                                                    *)
Pow2(k) == IF k = 1 THEN 1 ELSE IF k = 2 THEN 2 ELSE 4

C3_LockDurations ==
    \A api \in Apis :
        \A k \in 1..Len(lock_log[api]) :
            k <= 3 => lock_log[api][k] = Min(base_delay * Pow2(k), max_delay)

(* C4: count_within(api, w), w in {60, 3600}, is the number of recorded     *)
(* timestamps t with now - w <= t <= now, through every interleaving of     *)
(* records, cleanups and clock moves.                                       *)
InWindow(api, w) ==
    {i \in 1..Len(recorded[api]) :
        now - w <= recorded[api][i] /\ recorded[api][i] <= now}

C4_CountExact ==
    \A api \in Apis :
        \A w \in {MINUTE, HOUR} :
            /\ CountRequestsInWindow(request_history[api], w)
                   = Cardinality(InWindow(api, w))
            /\ CountRequestsInWindow(HistoryAfterCheck(api), w)
                   = Cardinality(InWindow(api, w))

\* entries have been pruned, one lies on the hour cutoff, one is outside the minute
C4_Witness ==
    \E api \in Apis :
        /\ Len(request_history[api]) < Len(recorded[api])
        /\ request_history[api] # <<>>
        /\ CountRequestsInWindow(request_history[api], MINUTE)
               < CountRequestsInWindow(request_history[api], HOUR)

(* C7: get_next_request never returns a record of priority q while a        *)
(* non-expired record of a higher priority is queued for the api; so of a   *)
(* LOW and a CRITICAL record queued during a lock, the CRITICAL one is      *)
(* returned first once the lock has elapsed.                                *)
NoLiveAbove(queues, q) ==
    \A p \in Priority :
        p > q => \A i \in 1..Len(queues[p]) : Expired(queues[p][i])

C7_StrictTierOrder ==
    \A api \in Apis :
        /\ LET d == DrainFrom(api, 1, request_queues[api])
           IN  d.admitted =>
                 /\ NoLiveAbove(request_queues[api], d.request.priority)
                 /\ NoLiveAbove(d.queues, d.request.priority)
        /\ ret.op = "get_next_request" /\ ret.request # NoRequest
              => NoLiveAbove(request_queues[api], ret.request.priority)

\* CRITICAL and LOW were queued under a lock; after it the drain returned the
\* CRITICAL record and the LOW record still waits
C7_Witness ==
    \E api \in Apis :
        /\ ret.op = "get_next_request"
        /\ ret.request.priority = CRITICAL
        /\ ret.request.timestamp < backoff_until[api]
        /\ ~Locked(api)
        /\ Len(request_queues[api][LOW]) = 1
        /\ request_queues[api][LOW][1].timestamp < backoff_until[api]
        /\ request_queues[api][LOW][1].timestamp <= ret.request.timestamp

\* the hourly quota of 100 is used up: 100 records in the trailing hour, no lock
QuotaUsedUp(api) ==
    /\ api_configs[api].requests_per_hour = DefaultRequestsPerHour
    /\ ~Locked(api)
    /\ Cardinality(InWindow(api, HOUR)) = DefaultRequestsPerHour

(* C2: with an hourly limit of 100, no lock and 100 records inside the      *)
(* trailing hour, can_make_request(NORMAL) returns (false, wait > 0) and    *)
(* can_make_request(CRITICAL) returns (true, 0), wherever the 100           *)
(* timestamps lie in the hour, the trailing-minute count having reached the *)
(* per-minute limit included.                                               *)
C2_CriticalAlwaysAdmitted ==
    \A api \in Apis :
        QuotaUsedUp(api)
            => /\ ~CanMakeRequest(api, NORMAL).allowed
               /\ ~CanMakeRequest(api, NORMAL).raised
               /\ CanMakeRequest(api, NORMAL).num > 0
               /\ CanMakeRequest(api, CRITICAL) = Result(TRUE, 0, 1, FALSE)

(* C2, amended: in that situation NORMAL is refused with a positive wait,   *)
(* and CRITICAL is admitted with wait 0 exactly when the trailing-minute    *)
(* count is below the per-minute limit (or no per-minute limit is set);     *)
(* otherwise CRITICAL is refused with wait 60 / requests_per_minute.        *)
C2_CriticalAdmittedBelowMinuteLimit ==
    \A api \in Apis :
        QuotaUsedUp(api)
            => LET rpm          == api_configs[api].requests_per_minute
                   minute_count == Cardinality(InWindow(api, MINUTE))
                   normal       == CanMakeRequest(api, NORMAL)
                   critical     == CanMakeRequest(api, CRITICAL)
               IN  /\ ~normal.allowed /\ ~normal.raised
                   /\ normal.num > 0 /\ normal.den > 0
                   /\ IF rpm = None \/ minute_count < rpm
                      THEN critical = Result(TRUE, 0, 1, FALSE)
                      ELSE critical = Result(FALSE, MINUTE, rpm, FALSE)

\* can_make_request has been called with the quota used up and the
\* trailing minute holding exactly requests_per_minute records
C2_Witness ==
    \E api \in Apis :
        /\ QuotaUsedUp(api)
        /\ ret.op = "can_make_request"
        /\ api_configs[api].requests_per_minute = DefaultRequestsPerMinute
        /\ Cardinality(InWindow(api, MINUTE)) = DefaultRequestsPerMinute
        /\ ~CanMakeRequest(api, CRITICAL).allowed
        /\ ~CanMakeRequest(api, NORMAL).allowed

(* C12: naming an api that has no configuration never fails hard:           *)
(* can_make_request returns (true, 0) for it, and request_api_slot,         *)
(* get_next_request and record_api_response with 429, 5xx or 403 complete   *)
(* without raising.                                                         *)
C12_UnknownApiNeverRaises ==
    /\ \A api \in UnknownApis, p \in Priority :
          CanMakeRequest(api, p) = Result(TRUE, 0, 1, FALSE)
    /\ ret.error # "KeyError"

(* C13: once backoff_until[api] is set to T, no request of any priority is  *)
(* admitted for the api before T, whatever happens in between: no step      *)
(* moves the end of a lock that is still active to an earlier time, so      *)
(* can_make_request keeps refusing until T.                                 *)
C13_LockEndNeverEarlier ==
    [][ \A api \in Apis :
           now' < backoff_until[api]
              => /\ backoff_until'[api] >= backoff_until[api]
                 /\ \A p \in Priority : ~(CanMakeRequest(api, p).allowed)' ]_vars

(* C14: no reachable state makes the admission layer raise: after any       *)
(* sequence of failure reports, any number of 429 reports for one api       *)
(* included, can_make_request (every priority) and get_api_status return    *)
(* normally; the only lasting damage is a lower requests_per_hour.          *)
C14_AdmissionNeverRaises ==
    /\ \A api \in Apis, p \in Priority : ~CanMakeRequest(api, p).raised
    /\ ~GetApiStatusRaises
    /\ ret.error = ""

(* ======================================================================== *)
(*                        MultiDataSourceManager claims                     *)
(* ======================================================================== *)

(* C5: the cache never holds more than capacity (100) entries, and a put    *)
(* that would exceed it removes exactly one entry, one whose cached_at is   *)
(* the minimum over the entries present after the insert.                   *)
MinCachedAt(c) ==
    CHOOSE t \in {c[i].cached_at : i \in DOMAIN c} :
        \A j \in DOMAIN c : t <= c[j].cached_at

C5_EvictsOneOldest ==
    /\ Len(cache) <= CacheCapacity
    /\ Cardinality(CacheKeys(cache)) = Len(cache)
    /\ \A symbol \in CacheSymbols :
         LET data   == ProcessedData(symbol, now)
             stored == Store(cache, symbol, data, now)
             after  == CacheData(cache, symbol, data, now)
         IN  IF Len(stored) > CacheCapacity
             THEN /\ Len(after) = Len(stored) - 1
                  /\ \E i \in DOMAIN stored :
                        /\ after = Remove(stored, i)
                        /\ stored[i].cached_at = MinCachedAt(stored)
             ELSE after = stored
    /\ got.op = "_cache_data" /\ got.evicted # 0
          => /\ got.evicted \notin CacheKeys(cache)
             /\ Len(cache) = CacheCapacity

\* a put into a full cache whose first-inserted entry is not the oldest has
\* evicted the oldest one and kept the first
C5_Witness ==
    /\ got.op = "_cache_data"
    /\ got.evicted = 2
    /\ got.symbol = 101
    /\ Len(cache) = CacheCapacity
    /\ cache[1].symbol = 1

(* C6: a get never returns an entry with now - cached_at > ttl (900 s): it  *)
(* reports a miss and deletes the entry, and gets for that key keep missing *)
(* until the key is put again; a get with now - cached_at <= ttl returns    *)
(* the stored value and leaves the cache unchanged.                         *)
C6_StaleNeverReturned ==
    /\ \A symbol \in CacheSymbols :
         LET i == CacheIndex(cache, symbol)
             r == GetCachedData(cache, symbol, now)
         IN  /\ i = 0 => ~r.hit /\ r.cache = cache
             /\ i # 0 /\ now - cache[i].cached_at > cache_ttl
                   => /\ ~r.hit
                      /\ symbol \notin CacheKeys(r.cache)
                      /\ Len(r.cache) = Len(cache) - 1
                      /\ ~GetCachedData(r.cache, symbol, now).hit
             /\ i # 0 /\ now - cache[i].cached_at <= cache_ttl
                   => r.hit /\ r.data = cache[i].data /\ r.cache = cache
    /\ got.op = "_get_cached_data" /\ got.outcome # "hit"
          => got.symbol \notin CacheKeys(cache)
    /\ got.op = "_get_cached_data" /\ got.outcome = "hit"
          => /\ got.at - got.data.fetched_at <= cache_ttl
             /\ got.symbol \in CacheKeys(cache)

\* an entry fetched at FilledAt is found stale at age 901 and removed
C6_Witness ==
    /\ got.op = "_get_cached_data"
    /\ got.outcome = "stale"
    /\ got.symbol = 1
    /\ got.at = FilledAt + cache_ttl + 1
    /\ 1 \notin CacheKeys(cache)
    /\ Len(cache) = CacheCapacity - 1

\* get_multiple_stocks has just returned to its caller
BatchReturned == got.op = "get_multiple_stocks" /\ got.outcome = "returned"

(* C8: with the hourly limit of 100, no prior requests and an upstream that *)
(* succeeds for every symbol, get_multiple_stocks over 5 distinct symbols   *)
(* without a pause returns a map with all 5 symbols, and afterwards the     *)
(* request history holds exactly 5 timestamps and the cache exactly 5       *)
(* entries, one per symbol.                                                 *)
C8_FiveSymbolsFetched ==
    BatchReturned /\ batch.fresh /\ batch.all_ok /\ batch.delay = 0
       /\ Len(batch.symbols) = 5 /\ Cardinality(Range(batch.symbols)) = 5
       => /\ DOMAIN returned[1] = Range(batch.symbols)
          /\ \A symbol \in Range(batch.symbols) :
                returned[1][symbol].symbol = symbol
          /\ Len(mds_history) = 5
          /\ Len(cache) = 5
          /\ CacheKeys(cache) = Range(batch.symbols)

C8_Witness ==
    /\ BatchReturned /\ batch.fresh /\ batch.all_ok /\ batch.delay = 0
    /\ batch.symbols = FiveSymbols
    /\ Len(cache) = 5

(* C9: when the upstream answers the fetch of a symbol with 429,            *)
(* get_stock_info raises, the symbol's cache entry is neither created nor   *)
(* refreshed, and the rate-limit handler has run, so that can_make_request  *)
(* for the api right afterwards is refused for every priority.              *)
C9_UpstreamRateLimitLocks ==
    [][ /\ frames = <<>> /\ frames' = <<>>
        /\ steps' # steps
        /\ got'.op = "get_stock_info" /\ got'.status = 429
        => /\ got'.outcome = "error"
           /\ \/ got'.symbol \notin CacheKeys(cache')
              \/ /\ got'.symbol \in CacheKeys(cache)
                 /\ cache'[CacheIndex(cache', got'.symbol)]
                       = cache[CacheIndex(cache, got'.symbol)]
           /\ \A api \in Apis, p \in Priority : ~(CanMakeRequest(api, p).allowed)' ]_vars

\* every symbol of the pass before the loop index has been attempted
PassAttempted(frame) ==
    {frame.symbols[k] : k \in 1..(frame.i - 1)} \subseteq
        Range(frame.failed) \cup DOMAIN frame.results

(* C10: get_multiple_stocks never aborts or raises because one symbol       *)
(* fails: the remaining symbols of the pass are still attempted, and on     *)
(* return the caller receives both the map of the symbols that succeeded    *)
(* and the list of the symbols that never succeeded, which together         *)
(* partition the requested symbols.                                         *)
C10_ReturnsMapAndFailedList ==
    /\ \A k \in DOMAIN frames : PassAttempted(frames[k])
    /\ BatchReturned
          => /\ batch.attempted = Range(batch.symbols)
             /\ Len(returned) = 2
             /\ DOMAIN returned[1] = batch.succeeded
             /\ Range(returned[2]) = Range(batch.symbols) \ batch.succeeded

(* C10, amended: get_multiple_stocks never aborts because one symbol fails: *)
(* the remaining symbols of the pass are still attempted, and on return the *)
(* caller receives one value, the map of the symbols that succeeded in some *)
(* pass; the symbols that never succeeded are the requested symbols missing *)
(* from the map.                                                            *)
C10_ReturnsMapOnly ==
    /\ \A k \in DOMAIN frames : PassAttempted(frames[k])
    /\ BatchReturned
          => /\ batch.attempted = Range(batch.symbols)
             /\ Len(returned) = 1
             /\ DOMAIN returned[1] = batch.succeeded
             /\ batch.succeeded \subseteq Range(batch.symbols)

\* a batch has returned in which symbol 1 succeeded and symbol 2 failed in both passes
C10_Witness ==
    /\ BatchReturned
    /\ batch.symbols = <<1, 2>>
    /\ DOMAIN returned[1] = {1}
    /\ ~batch.all_ok

\* 2^k for the passes a batch can have
RECURSIVE Doubled(_, _)
Doubled(delay, k) == IF k = 0 THEN delay ELSE 2 * Doubled(delay, k - 1)

\* the passes in progress: pass k (counted from 0) is frames[k + 1]; there
\* are at most max_retries + 1 of them, pass k retries exactly what failed
\* in pass k - 1 and pauses delay * 2^k between requests
PassesWellFormed ==
    /\ Len(frames) <= batch.max_retries + 1
    /\ \A k \in DOMAIN frames :
          /\ frames[k].max_retries = batch.max_retries - (k - 1)
          /\ frames[k].delay = Doubled(batch.delay, k - 1)
          /\ k > 1 => /\ frames[k].symbols = frames[k - 1].failed
                      /\ frames[k - 1].i = Len(frames[k - 1].symbols) + 1

Distinct(list) == Cardinality(Range(list)) = Len(list)

(* C11: get_multiple_stocks always terminates, even when every upstream     *)
(* call fails forever: it makes at most max_retries + 1 passes, retry pass  *)
(* k holds exactly the symbols that failed in pass k - 1, so each symbol is *)
(* attempted at most max_retries + 1 times and a symbol that succeeded is   *)
(* never fetched again, and pass k pauses delay * 2^k between requests.     *)
C11_TerminatesEachSymbolBounded ==
    /\ [](PassesWellFormed
          /\ ~batch.reattempted
          /\ \A symbol \in DOMAIN batch.attempts :
                batch.attempts[symbol] <= batch.max_retries + 1)
    /\ (batch.active ~> ~batch.active)

(* C11, amended: get_multiple_stocks always terminates, with at most        *)
(* max_retries + 1 passes, retry pass k holding exactly the entries that    *)
(* failed in pass k - 1 and pausing delay * 2^k; when the symbols of the    *)
(* list are distinct, each is attempted at most max_retries + 1 times and   *)
(* never again after it succeeded; a symbol listed more than once can be    *)
(* attempted again after it succeeded, each of its entries at most          *)
(* max_retries + 1 times.                                                   *)
C11_TerminatesEachEntryBounded ==
    /\ [](PassesWellFormed
          /\ (Distinct(batch.symbols)
                => /\ ~batch.reattempted
                   /\ \A symbol \in DOMAIN batch.attempts :
                         batch.attempts[symbol] <= batch.max_retries + 1)
          /\ \A symbol \in DOMAIN batch.attempts :
                batch.attempts[symbol]
                    <= Cardinality({i \in DOMAIN batch.symbols : batch.symbols[i] = symbol})
                          * (batch.max_retries + 1))
    /\ (batch.active ~> ~batch.active)

\* a batch of two symbols has returned empty-handed after four passes
C11_Witness ==
    /\ BatchReturned
    /\ batch.max_retries = 3
    /\ batch.succeeded = {}
    /\ \A symbol \in Range(batch.symbols) : batch.attempts[symbol] = 4
    /\ now = 3 * RetryPause + (1 + 2 + 4 + 8)

C20_BlockedHeadLeavesQueues ==
    [][\A api \in Apis :
         LET queues   == request_queues[api]
             nonempty == {k \in DOMAIN TierOrder : queues[TierOrder[k]] # <<>>}
             first    == TierOrder[CHOOSE k \in nonempty : \A j \in nonempty : k <= j]
             head     == Head(queues[first])
             r        == CanMakeRequest(api, head.priority)
             called(op) == ret'.op = op /\ steps' # steps /\ now' = now
         IN  /\ (/\ called("get_next_request") /\ nonempty # {}
                 /\ ~Expired(head) /\ ~r.raised /\ ~r.allowed)
                   => /\ ret'.request = NoRequest /\ ret'.error = ""
                      /\ request_queues' = request_queues
                      /\ recorded' = recorded
                      /\ Len(request_history'[api]) <= Len(request_history[api])
             /\ (called("get_next_request") /\ ret'.request # NoRequest)
                   => \E p \in Priority :
                        /\ DropExpired(queues[p]) # <<>>
                        /\ ret'.request = Head(DropExpired(queues[p]))
                        /\ request_queues'[api][p] = Tail(DropExpired(queues[p]))
             /\ (called("request_api_slot") /\ request_queues' # request_queues)
                   => \E p \in Priority :
                        /\ Len(request_queues'[api][p]) = Len(queues[p]) + 1
                        /\ SubSeq(request_queues'[api][p], 1, Len(queues[p])) = queues[p]
                        /\ \A q \in Priority \ {p} : request_queues'[api][q] = queues[q]]_vars

\* get_next_request returned None during a lock and left the two records of
\* the HIGH tier, queued at different times, in their order, and recorded
\* nothing
C20_Witness ==
    /\ ret.op = "get_next_request" /\ ret.request = NoRequest /\ ret.error = ""
    /\ \E api \in Apis :
         /\ now < backoff_until[api]
         /\ Len(request_queues[api][HIGH]) = 2
         /\ request_queues[api][HIGH][1].timestamp < request_queues[api][HIGH][2].timestamp
         /\ request_history[api] = <<>>

C15_FailingSinkStillBacksOff ==
    [][(/\ ret'.op = "record_api_response" /\ ret'.sink = "error"
        /\ steps' # steps /\ now' = now)
          => /\ ret'.error = ""
             /\ \E api \in Apis : ResponseEffect(api, ret'.status)]_vars

\* a 429 report whose log entry failed has locked the api and shrunk its limit
C15_Witness ==
    /\ ret.op = "record_api_response" /\ ret.sink = "error" /\ ret.status = 429
    /\ ret.error = ""
    /\ \E api \in Apis :
         /\ backoff_until[api] > now
         /\ Len(lock_log[api]) = 1
         /\ api_configs[api].requests_per_hour = ShrinkLimit(DefaultRequestsPerHour)

\* C18: after update_api_config a manager newly constructed over the same
\* store loads the same requests_per_hour, requests_per_minute and
\* backoff_enabled as the updated configuration
C18_SaveThenLoadIsIdentity ==
    ret.op = "update_api_config" => LoadSettings(GetSetting) = api_configs

\* C23: a report of a status of 500 or more locks the api until now + 30 s,
\* a report of 403 until now + 30 min, both whatever backoff_enabled is and
\* without touching the delay or the limits; a 429 report shrinks the hourly
\* limit; a report of any other status changes none of them
C23_StatusClassification ==
    [][\A api \in Apis :
         LET status == ret'.status
             frame  == <<api_configs, api_delay, lock_log>>' =
                          <<api_configs, api_delay, lock_log>>
         IN  (ret'.op = "record_api_response" /\ steps' # steps /\ now' = now)
               => /\ ret'.error = ""
                  /\ status >= 500 =>
                        frame /\ backoff_until'[api] = now + 30
                  /\ status = 403 =>
                        frame /\ backoff_until'[api] = now + 30 * MINUTE
                  /\ status = 429 =>
                        api_configs'[api].requests_per_hour
                            = ShrinkLimit(api_configs[api].requests_per_hour)
                  /\ (status < 500 /\ status \notin {403, 429}) =>
                        frame /\ backoff_until' = backoff_until]_vars

\* with backoff disabled, a 500 report locked the api for 30 seconds and a
\* 404 report after it changed nothing
C23_Witness ==
    /\ ret.op = "record_api_response" /\ ret.status = 404
    /\ \E api \in Apis :
         /\ ~api_configs[api].backoff_enabled
         /\ backoff_until[api] = now + ServerErrorBackoff
         /\ api_delay[api] = None

\* C24: the backoff delay of an api changes only in a 429 report made while
\* backoff is enabled, which doubles it up to max_delay; no other step
\* changes it, so it never decreases and never exceeds max_delay
C24_DelayOnlyGrows ==
    [][\A api \in Apis :
         LET delay(d) == IF d = None THEN base_delay ELSE d
             before   == delay(api_delay[api])
             after    == delay(api_delay'[api])
             limited  == /\ ret'.op = "record_api_response" /\ ret'.status = 429
                         /\ steps' # steps /\ now' = now
                         /\ api_configs[api].backoff_enabled
         IN  /\ before <= after /\ after <= max_delay
             /\ limited => after = (IF 2 * before <= max_delay THEN 2 * before
                                    ELSE max_delay)
             /\ ~limited => api_delay'[api] = api_delay[api]]_vars

\* the delay reached max_delay, and a success report, made after the lock
\* had run out, left it there
C24_Witness ==
    /\ ret.op = "record_api_response" /\ ret.status = 200
    /\ \E api \in Apis :
         /\ api_delay[api] = max_delay
         /\ lock_log[api][Len(lock_log[api])] = max_delay
         /\ lock_log[api][Len(lock_log[api]) - 1] < max_delay
         /\ ~Locked(api)

(* ------------------------ claims about transactions --------------------- *)
\* C19: when a transaction block completes, all its writes are committed and
\* visible to later reads; when it raises, the store is what it was before
\* the block and the exception reaches the caller
C19_TransactionAtomic ==
    [][(db.conn.open /\ ~db'.conn.open)
          => IF db'.conn.block = "return"
             THEN Visible' = db.conn.view /\ ret'.error = ""
             ELSE Visible' = Visible /\ ret'.error = db'.conn.block]_vars

\* a block that wrote TEST committed, and a later block that wrote and then
\* raised left TEST as it was and TEST2 absent
C19_Witness ==
    /\ ret.op = "transaction" /\ ret.error = "Exception"
    /\ db.conn.writes = 1 /\ steps = MaxTxnSteps
    /\ Visible = [EmptyTable EXCEPT !["TEST"] = 100]

(* ----------------------- claims about concurrent callers ---------------- *)
\* the largest hourly count an admission can produce: the first count that
\* the most relaxed check (CRITICAL) refuses
HourCeiling(L) ==
    CHOOSE n \in 0..(2 * L + 1) :
        /\ ~BelowCriticalLimit(n, L)
        /\ \A m \in 0..(n - 1) : BelowCriticalLimit(m, L)

\* the admissions in the trailing minute and hour are within the api's limits
WithinLimits(api) ==
    LET config == api_configs[api]
    IN  /\ config.requests_per_minute # None =>
              CountRequestsInWindow(request_history[api], MINUTE)
                  <= config.requests_per_minute
        /\ CountRequestsInWindow(request_history[api], HOUR)
              <= HourCeiling(config.requests_per_hour)

Stale(request) == now - request.timestamp > HOUR

\* C21: get_next_request never returns a record older than one hour; the
\* records it removes from a tier are a prefix of the tier, all of them older
\* than one hour except the one it returns, and none of the discarded ones is
\* recorded; past the stale records at the front of the first non-empty tier
\* the same call goes on to the tier's next record (returns it, or leaves it
\* at the head when it is blocked)
C21_StaleRecordsDiscarded ==
    [][\A api \in Apis :
         LET queues == request_queues[api]
             after  == request_queues'[api]
             nonempty == {k \in DOMAIN TierOrder : queues[TierOrder[k]] # <<>>}
             first  == TierOrder[CHOOSE k \in nonempty : \A j \in nonempty : k <= j]
             live   == {i \in DOMAIN queues[first] : ~Stale(queues[first][i])}
             next   == queues[first][CHOOSE i \in live : \A j \in live : i <= j]
         IN  (ret'.op = "get_next_request" /\ steps' # steps /\ now' = now
                /\ ret'.error = "")
               => /\ ret'.request # NoRequest => ~Stale(ret'.request)
                  /\ recorded'[api] = IF ret'.request # NoRequest
                                      THEN Append(recorded[api], now)
                                      ELSE recorded[api]
                  /\ \A p \in Priority :
                       \E k \in 1..(Len(queues[p]) + 1) :
                          /\ after[p] = SubSeq(queues[p], k, Len(queues[p]))
                          /\ \A i \in 1..(k - 1) :
                                \/ Stale(queues[p][i])
                                \/ i = k - 1 /\ ret'.request = queues[p][i]
                  /\ (nonempty # {} /\ live # {})
                       => \/ ret'.request = next
                          \/ ret'.request = NoRequest /\ Head(after[first]) = next]_vars

\* get_next_request discarded the HIGH record queued an hour and a second
\* before and returned the one queued exactly an hour before, recording it
C21_Witness ==
    /\ ret.op = "get_next_request"
    /\ now - ret.request.timestamp = HOUR
    /\ ret.request.priority = HIGH
    /\ \E api \in Apis :
         /\ request_queues[api][HIGH] = <<>>
         /\ recorded[api] = <<now>>

(* ------------------------ claims about the quota ------------------------- *)
\* the admissions recorded in the window of w seconds that ends now
Admitted(api, w) == Cardinality(InWindow(api, w))

\* C25 as stated: with the limits unchanged, the admissions in the trailing
\* minute never exceed requests_per_minute, those in the trailing hour never
\* exceed 1.2 * requests_per_hour, nor requests_per_hour when only NORMAL and
\* LOW requests were made
C25_QuotaNeverExceeded ==
    \A api \in Apis :
        LET config == api_configs[api]
        IN  /\ Admitted(api, MINUTE) <= config.requests_per_minute
            /\ 10 * Admitted(api, HOUR) <= 12 * config.requests_per_hour
            /\ issued[api] \subseteq {NORMAL, LOW} =>
                    Admitted(api, HOUR) <= config.requests_per_hour

\* C25, amended: the admissions in the trailing hour stay below
\* 1.2 * requests_per_hour + 1 (at most 1.2 * requests_per_hour rounded up)
C25_QuotaWithinRoundedLimit ==
    \A api \in Apis :
        LET config == api_configs[api]
        IN  /\ Admitted(api, MINUTE) <= config.requests_per_minute
            /\ 10 * Admitted(api, HOUR) < 12 * config.requests_per_hour + 10
            /\ issued[api] \subseteq {NORMAL, LOW} =>
                    Admitted(api, HOUR) <= config.requests_per_hour

\* under an hourly limit of 2 and a minute limit of 10, three CRITICAL
\* requests were admitted within the hour and the fourth was queued
C25_Witness ==
    \E api \in Apis :
        /\ api_configs[api].requests_per_hour = 2
        /\ issued[api] = {CRITICAL}
        /\ Admitted(api, HOUR) = 3
        /\ Len(request_queues[api][CRITICAL]) = 1

\* what can_make_request allows is monotone in the priority, LOW and NORMAL
\* being treated alike
Admissible(api) == {p \in Priority : CanMakeRequest(api, p).allowed}

Monotone(api) ==
    LET allowed == Admissible(api)
    IN  /\ \A p, q \in Priority : (q <= p /\ q \in allowed) => p \in allowed
        /\ LOW \in allowed <=> NORMAL \in allowed

\* C26: can_make_request allows every priority above one it allows; so when
\* get_next_request returns None because the head of a tier is refused, no
\* record left in any queue would be admitted at that instant
C26_BlockingWithholdsNothing ==
    \A api \in Apis :
       /\ Monotone(api)
       /\ LET d       == DrainFrom(api, 1, request_queues[api])
              allowed == Admissible(api)
          IN  (d.checked /\ ~d.admitted /\ ~d.raised)
                 => \A p \in Priority :
                       \A i \in DOMAIN d.queues[p] :
                          /\ d.queues[p][i].priority = p
                          /\ p \notin allowed

\* with no lock and the hourly limit of 2 used up by two admissions,
\* get_next_request returned None and left a NORMAL and a LOW record queued,
\* while a CRITICAL request would be admitted
C26_Witness ==
    /\ ret.op = "get_next_request" /\ ret.request = NoRequest /\ ret.error = ""
    /\ steps = MaxLimitSteps
    /\ \E api \in Apis :
         /\ ~Locked(api)
         /\ Admitted(api, HOUR) = 2
         /\ Len(request_queues[api][NORMAL]) = 1
         /\ Len(request_queues[api][LOW]) = 1
         /\ CanMakeRequest(api, CRITICAL).allowed
         /\ ~CanMakeRequest(api, NORMAL).allowed

\* the records a step takes out of the queues of api: positions of the old
\* tier that are no longer there
Removed(api, p) ==
    1..(Len(request_queues[api][p]) - Len(request_queues'[api][p]))

AllTiersEmpty == \A api \in Apis : \A p \in Priority : request_queues[api][p] = <<>>

FetchStep ==
    /\ got'.op = "get_stock_info"
    /\ \/ frames = <<>> /\ frames' = <<>> /\ steps' # steps /\ now' = now
       \/ /\ frames # <<>>
          /\ Len(frames') = Len(frames)
          /\ frames'[Len(frames')].i # Top.i

FetchFailed == got'.outcome \in {"rate_limited", "error"}

\* the outcome tells whether the upstream was asked and what it answered
OutcomeMatchesUpstream ==
    /\ got'.outcome = "rate_limited" => got'.status = 0
    /\ got'.outcome = "error" => got'.status \notin {0, 200}
    /\ got'.outcome = "fetched" => got'.status = 200

\* the success path appends the time of the call and stores the data
SuccessRecorded ==
    got'.outcome = "fetched"
       => /\ mds_history' = MdsRecordRequest(mds_history, got'.at)
          /\ \E i \in DOMAIN cache' :
                cache'[i] = CacheEntry(got'.symbol, got'.data, got'.at)

\* C28 as stated: a call of get_stock_info that raises APIRateLimitError or
\* DataFetchError leaves the request history and the cache exactly as they were
C28_FailureLeavesHistoryAndCache ==
    [][FetchStep =>
         /\ OutcomeMatchesUpstream
         /\ SuccessRecorded
         /\ FetchFailed => mds_history' = mds_history /\ cache' = cache]_vars

\* C28: a call of get_stock_info that raises APIRateLimitError (upstream not
\* asked) or DataFetchError leaves the request history exactly as it was, and
\* the cache too except that an expired entry of the requested symbol may
\* have been deleted by the lookup; only the success path appends and stores
C28_FailureLeavesHistory ==
    [][FetchStep =>
         /\ OutcomeMatchesUpstream
         /\ SuccessRecorded
         /\ FetchFailed =>
              /\ mds_history' = mds_history
              /\ \/ cache' = cache
                 \/ \E i \in DOMAIN cache :
                       /\ cache[i].symbol = got'.symbol
                       /\ got'.at - cache[i].cached_at > cache_ttl
                       /\ cache' = Remove(cache, i)]_vars

\* get_stock_info raised DataFetchError for a symbol fetched more than
\* cache_ttl before: the one earlier request is still the whole history and
\* the expired entry is gone
C28_Witness ==
    /\ got.op = "get_stock_info" /\ got.outcome = "error" /\ got.at = now
    /\ Len(mds_history) = 1
    /\ now - mds_history[1] > cache_ttl
    /\ cache = <<>>
    /\ frames = <<>>

(* ------------------------ claims about the two limiters ----------------- *)
\* the manager and the inline check hold the same admissions of the last hour
SameHistory(api) ==
    CleanupHistory(request_history[api])
       = SelectSeq(mds_history, LAMBDA req : req >= now - HOUR)

\* an admission lies exactly on the edge of a window
OnWindowEdge == \E i \in DOMAIN mds_history : mds_history[i] \in {now - MINUTE, now - HOUR}

\* both checks were just made, and can_make_request returned
JustChecked == got.op = "_check_rate_limits" /\ got.at = now /\ ret.error = ""

\* C29 as stated: with the same limits and admissions and no lock,
\* _check_rate_limits raises exactly when can_make_request(NORMAL) returns
\* False, also with a timestamp exactly on the edge of a window
C29_ChecksAgree ==
    \A api \in Apis :
       (~Locked(api) /\ SameHistory(api))
          => /\ CheckRateLimits(mds_history, now) <=> ~CanMakeRequest(api, NORMAL).allowed
             /\ JustChecked => (got.outcome = "rate_limited" <=> ret.value = "False")

\* C29: with the same limits and admissions and no lock, can_make_request
\* (NORMAL) returns False whenever _check_rate_limits raises, and the two
\* agree whenever no timestamp lies exactly on the edge of a window
C29_ChecksAgreeOffTheEdge ==
    \A api \in Apis :
       (~Locked(api) /\ SameHistory(api))
          => /\ CheckRateLimits(mds_history, now) => ~CanMakeRequest(api, NORMAL).allowed
             /\ JustChecked => (got.outcome = "rate_limited" => ret.value = "False")
             /\ ~OnWindowEdge =>
                  /\ CheckRateLimits(mds_history, now)
                        <=> ~CanMakeRequest(api, NORMAL).allowed
                  /\ JustChecked => (got.outcome = "rate_limited" <=> ret.value = "False")

\* five admissions a minute and a second ago and a sixth in between: both
\* checks were made and both passed; a limit's worth in the last minute: both
\* refused
C29_Witness ==
    /\ JustChecked /\ ~OnWindowEdge
    /\ \A api \in Apis : ~Locked(api) /\ SameHistory(api)
    /\ \/ /\ got.outcome = "passed" /\ ret.value = "True"
          /\ Len(mds_history) = MdsRequestsPerMinute + 1
          /\ mds_history[1] = now - MINUTE - 1
       \/ /\ got.outcome = "rate_limited" /\ ret.value = "False"
          /\ Len(mds_history) = MdsRequestsPerMinute
          /\ mds_history[1] = now - MINUTE + 1

\* the entries of symbol that are not older than cache_ttl
FreshEntries(symbol) ==
    {i \in DOMAIN cache : cache[i].symbol = symbol /\ now - cache[i].cached_at <= cache_ttl}

\* what a call that does not read the cache does: never a hit, the limiter
\* decides first, and the cache is written on success only
ChecksFirst(r) ==
    /\ r.outcome # "hit"
    /\ r.outcome = "rate_limited" <=> CheckRateLimits(mds_history, now)
    /\ r.outcome \in {"rate_limited", "error"} => r.cache = cache /\ r.history = mds_history
    /\ r.outcome = "fetched" => r.data.fetched_at = now

\* C30: with a fresh entry get_stock_info(symbol, force_refresh=False)
\* returns the cached value without the limiter, the upstream or the history,
\* also with the quota used up; with force_refresh=True or with enable_cache
\* False the cache is not read and _check_rate_limits decides first
C30_CacheHitBypassesAdmission ==
    [][/\ \A symbol \in FetchSymbols, status \in UpstreamStatus :
            /\ \A i \in FreshEntries(symbol) :
                  LET r == GetStockInfo(cache, mds_history, symbol, FALSE, status, now)
                  IN  /\ r.outcome = "hit" /\ r.data = cache[i].data /\ r.status = 0
                      /\ r.cache = cache /\ r.history = mds_history
            /\ ChecksFirst(GetStockInfo(cache, mds_history, symbol, TRUE, status, now))
            /\ \A force_refresh \in BOOLEAN :
                  ChecksFirst(GetStockInfoUncached(cache, mds_history, symbol,
                                                   force_refresh, status, now))
       /\ (FetchStep /\ got'.outcome = "hit")
             => /\ cache' = cache /\ mds_history' = mds_history
                /\ got'.status = 0
                /\ \E i \in FreshEntries(got'.symbol) : got'.data = cache[i].data
       /\ (FetchStep /\ FreshEntries(got'.symbol) = {})
             => got'.outcome # "hit"]_vars

\* get_stock_info answered from the cache while _check_rate_limits would raise
C30_Witness ==
    /\ got.op = "get_stock_info" /\ got.outcome = "hit" /\ got.at = now
    /\ CheckRateLimits(mds_history, now)
    /\ FreshEntries(got.symbol) # {}
    /\ steps > 0

====
